---- MODULE Spec2Model ----
(***************************************************************************)
(* A model of the curriculum pack subsystem (src/jcur): the manifest       *)
(* validator, the pack loader with its LRU lesson cache and its unlock     *)
(* query, the exporter and the importer.                                   *)
(*                                                                         *)
(* A file system is a function from pack directories to trees; a tree is a *)
(* function from relative paths to file contents.  A file content is       *)
(* either text that is not JSON, bytes that are not UTF-8, or the          *)
(* serialisation of a JSON value.  SHA-256 is modelled as collision free:  *)
(* the digest of a content is a value that determines the content.         *)
(***************************************************************************)
EXTENDS Integers, Sequences, FiniteSets, TLC

VARIABLES
    disk,          \* pack directory -> [exists, files]
    libExists,     \* whether the target library directory exists
    imp_errors,    \* JcurImporter.errors
    imp_warnings,  \* JcurImporter.warnings
    result,        \* the operation that ran last and what it returned or raised
    tampers,       \* edits made to the candidate packs so far
    iofaults,      \* copy failures injected so far
    installed_domains, \* the caller's journal of the domains it has installed
    held_result,   \* the JcurImportResult the caller has kept, as it reads now
    exp_input,     \* the lessons given to the last export and what it returned
    exports,       \* calls of export so far
    curriculum_pack,   \* the CurriculumPack a consumer has loaded, if any
    lessons_cache,     \* its _lessons_cache, oldest entry first
    recency,       \* the ids get_lesson has returned, least recent first
    walk_pos       \* lessons the consumer's current walk has visited

importVars == <<libExists, imp_errors, imp_warnings, tampers, iofaults,
                installed_domains, held_result>>
exportVars == <<exp_input, exports>>
loaderVars == <<curriculum_pack, lessons_cache, recency, walk_pos>>
vars == <<disk, libExists, imp_errors, imp_warnings, result, tampers, iofaults,
          installed_domains, held_result,
          exp_input, exports, curriculum_pack, lessons_cache, recency, walk_pos>>

(***************************************************************************)
(* Bounds of the model.                                                    *)
(***************************************************************************)
MaxTampers == 1
MaxIOFaults == 1
MaxFailedCopies == 1     \* files one failing copytree fails to copy
MaxWarnings == 2         \* list_installed is not called with more warnings pending

(***************************************************************************)
(* Generic helpers.                                                        *)
(***************************************************************************)
RECURSIVE SetToSeq(_)
SetToSeq(S) ==
    IF S = {} THEN <<>>
    ELSE LET x == CHOOSE y \in S : TRUE IN <<x>> \o SetToSeq(S \ {x})

Range(s) == {s[i] : i \in 1..Len(s)}

Put(f, k, v) == [q \in (DOMAIN f) \cup {k} |-> IF q = k THEN v ELSE f[q]]

Remove(f, k) == [q \in (DOMAIN f) \ {k} |-> f[q]]

RECURSIVE SumSeq(_)
SumSeq(s) == IF s = <<>> THEN 0 ELSE Head(s) + SumSeq(Tail(s))

(***************************************************************************)
(* JSON values, as json.load gives them.                                   *)
(***************************************************************************)
JNull == [t |-> "null"]
JNum(n) == [t |-> "num", n |-> n]
JStr(s) == [t |-> "str", s |-> s]
JList(l) == [t |-> "list", l |-> l]
JObj(m) == [t |-> "obj", m |-> m]
\* The JSON object of checksums.json: relative path -> hex digest.
JSums(f) == [t |-> "sums", sums |-> f]

NoKeys == [k \in {} |-> JNull]

\* A string that holds every required curriculum_info field name as a substring.
AllInfoFieldsText == "name domain source_language target_language"

\* The field names that are substrings of the string s.
Substrings(s) ==
    IF s = AllInfoFieldsText
    THEN {"name", "domain", "source_language", "target_language", s}
    ELSE {s}

\* Python's `field in j`: "yes", "no", or "raise" (TypeError) by the type of j.
PyIn(field, j) ==
    CASE j.t = "obj" -> IF field \in DOMAIN j.m THEN "yes" ELSE "no"
      [] j.t = "list" -> IF JStr(field) \in Range(j.l) THEN "yes" ELSE "no"
      [] j.t = "str" -> IF field \in Substrings(j.s) THEN "yes" ELSE "no"
      [] OTHER -> "raise"

(***************************************************************************)
(* File contents and paths.                                                *)
(***************************************************************************)
Text(n) == [kind |-> "text", n |-> n]        \* UTF-8 text that is not JSON
Bin(n) == [kind |-> "bin", n |-> n]          \* bytes that are not UTF-8
JsonFile(j) == [kind |-> "json", j |-> j]    \* the serialisation of j

Path(dir, stem, ext) == [dir |-> dir, stem |-> stem, ext |-> ext]
ManifestPath == Path(<<>>, "manifest", "json")
ChecksumsPath == Path(<<>>, "checksums", "json")
IndexPath == Path(<<>>, "index", "json")
LessonPath(id) == Path(<<"lessons">>, id, "json")

EmptyTree == [p \in {} |-> Text(0)]
NoDir == [exists |-> FALSE, files |-> EmptyTree]
Dir(tree) == [exists |-> TRUE, files |-> tree]

\* lessons_dir.glob('*.json')
LessonFiles(tree) == {p \in DOMAIN tree : p.dir = <<"lessons">> /\ p.ext = "json"}

\* open(path, 'r', encoding='utf-8') then json.load: the value, or the exception.
ReadJson(c) ==
    CASE c.kind = "json" -> [ok |-> TRUE, j |-> c.j, exc |-> "none"]
      [] c.kind = "text" -> [ok |-> FALSE, j |-> JNull, exc |-> "JSONDecodeError"]
      [] OTHER -> [ok |-> FALSE, j |-> JNull, exc |-> "UnicodeDecodeError"]

(***************************************************************************)
(* manifest.py                                                             *)
(***************************************************************************)
REQUIRED_FIELDS == <<"format_version", "jcur_spec_version", "curriculum_info">>

REQUIRED_CURRICULUM_INFO == <<"name", "domain", "source_language", "target_language">>

create_manifest(domain, name) ==
    JObj([format_version |-> JStr("1.0"),
          jcur_spec_version |-> JStr("1.0.0"),
          curriculum_info |->
              JObj([name |-> JStr(name), domain |-> JStr(domain),
                    description |-> JStr(""), source_language |-> JStr("en"),
                    target_language |-> JStr("ja"), level |-> JStr("beginner"),
                    tags |-> JList(<<>>)]),
          statistics |->
              JObj([total_lessons |-> JNum(0), total_items |-> JNum(0),
                    estimated_hours |-> JNum(0), categories |-> JObj(NoKeys)]),
          source |->
              JObj([author |-> JStr(""), created |-> JStr("utcnow"),
                    version |-> JStr("1.0.0"), license |-> JStr("CC-BY-SA-4.0")]),
          compatibility |->
              JObj([min_jiyou_version |-> JStr("0.1.0"),
                    required_features |-> JList(<<JStr("text_encoder")>>)]),
          integrity |-> JObj([checksum_algorithm |-> JStr("sha256")])])

Returned(errs) == [raised |-> FALSE, errors |-> errs, exc |-> "none"]
Raised(e) == [raised |-> TRUE, errors |-> <<>>, exc |-> e]

MissingField(f) == [msg |-> "Missing required field", field |-> f]
MissingInfoField(f) == [msg |-> "Missing required curriculum_info field", field |-> f]
UnsupportedVersion == [msg |-> "Unsupported format version"]

\* validate_manifest(manifest): the error list it returns, or the exception it
\* raises when the manifest or its curriculum_info is not a container.
validate_manifest(manifest) ==
    IF manifest.t # "obj"
    THEN \* `in` on a number or null, or .get / ['curriculum_info'] on a list or str
         Raised(IF manifest.t \in {"list", "str"} THEN "AttributeError" ELSE "TypeError")
    ELSE LET e1 == SelectSeq(REQUIRED_FIELDS, LAMBDA f : PyIn(f, manifest) = "no")
             hasInfo == "curriculum_info" \in DOMAIN manifest.m
             info == manifest.m["curriculum_info"]
             e2 == IF hasInfo
                   THEN SelectSeq(REQUIRED_CURRICULUM_INFO, LAMBDA f : PyIn(f, info) = "no")
                   ELSE <<>>
             fmtOk == "format_version" \in DOMAIN manifest.m
                        /\ manifest.m["format_version"] = JStr("1.0")
             e3 == IF fmtOk THEN <<>> ELSE <<UnsupportedVersion>>
         IN IF hasInfo /\ PyIn("name", info) = "raise"
            THEN Raised("TypeError")
            ELSE Returned([i \in 1..Len(e1) |-> MissingField(e1[i])]
                          \o [i \in 1..Len(e2) |-> MissingInfoField(e2[i])]
                          \o e3)

\* validate_manifest_file(path), on the tree that holds the manifest.
validate_manifest_file(pack) ==
    IF ~pack.exists \/ ManifestPath \notin DOMAIN pack.files
    THEN Returned(<<[msg |-> "Manifest not found"]>>)
    ELSE LET r == ReadJson(pack.files[ManifestPath])
         IN IF r.ok THEN validate_manifest(r.j)
            ELSE IF r.exc = "JSONDecodeError"
                 THEN Returned(<<[msg |-> "Invalid JSON in manifest"]>>)
                 ELSE Raised(r.exc)

(***************************************************************************)
(* types.py: items, lessons and operation results.                         *)
(***************************************************************************)
None == "<None>"     \* Python's None in a field that otherwise holds a string

\* CurriculumItem with the defaults of the dataclass.
CurriculumItem(id, type) ==
    [id |-> id, type |-> type, target |-> "t", source |-> "s",
     target_reading |-> None, part_of_speech |-> None, pattern |-> None,
     explanation |-> None, context |-> None, formality |-> None,
     direction |-> None, audio |-> None, image |-> None,
     hints |-> <<>>, examples |-> <<>>, tags |-> <<>>]

\* Lesson; `fault` says how serialising this object fails, if it does:
\* "attr" while lesson_data is built (no file is opened), "dump" inside
\* json.dump (the file is already open for writing and is left truncated).
Lesson(lesson_id, category, items) ==
    [lesson_id |-> lesson_id, title |-> "title", description |-> "",
     category |-> category, difficulty |-> 1, items |-> items,
     prerequisites |-> <<>>, estimated_minutes |-> 30, tags |-> <<>>,
     fault |-> "none"]

item_count(lesson) == Len(lesson.items)

success_NoWarnings(res) == Len(res.errors) = 0 /\ Len(res.warnings) = 0

\* JcurExportResult.success, JcurImportResult.success
success(res) == Len(res.errors) = 0

(***************************************************************************)
(* exporter.py: serialisation of one lesson.                               *)
(***************************************************************************)
\* `if value:` for an Optional[str] field and for a list field
LIST_ITEM_FIELDS == {"hints", "tags", "examples"}
Truthy(v) == v # None /\ v # ""
TruthyList(l) == Len(l) > 0

OPTIONAL_ITEM_FIELDS ==
    <<"target_reading", "part_of_speech", "pattern", "explanation",
      "context", "formality", "audio", "image">>

JStrList(l) == JList([i \in 1..Len(l) |-> JStr(l[i])])

\* json.dump of an Optional[str]
JOptStr(v) == IF v = None THEN JNull ELSE JStr(v)

\* _item_to_dict(item)
item_to_dict(item) ==
    LET required == [id |-> JStr(item.id), type |-> JStr(item.type),
                     target |-> JStr(item.target), source |-> JStr(item.source)]
        optKeys == {f \in Range(OPTIONAL_ITEM_FIELDS) : Truthy(item[f])}
        listKeys == {f \in {"hints", "tags"} : TruthyList(item[f])}
        exKeys == IF TruthyList(item.examples) THEN {"examples"} ELSE {}
    IN JObj([k \in (DOMAIN required) \cup optKeys \cup listKeys \cup exKeys |->
                CASE k \in DOMAIN required -> required[k]
                  [] k \in optKeys -> JStr(item[k])
                  [] k \in listKeys -> JStrList(item[k])
                  [] OTHER ->
                       JList([i \in 1..Len(item.examples) |->
                                 JObj([target |-> JStr(item.examples[i].target),
                                       source |-> JStr(item.examples[i].source),
                                       reading |-> JOptStr(item.examples[i].reading)])])])

\* lesson_data of _export_lesson(lessons_dir, lesson)
lesson_to_dict(lesson) ==
    JObj([lesson_id |-> JStr(lesson.lesson_id),
          title |-> JStr(lesson.title),
          description |-> JStr(lesson.description),
          category |-> JStr(lesson.category),
          difficulty |-> JNum(lesson.difficulty),
          prerequisites |-> JStrList(lesson.prerequisites),
          estimated_minutes |-> JNum(lesson.estimated_minutes),
          items |-> JList([i \in 1..Len(lesson.items) |-> item_to_dict(lesson.items[i])])])

\* What json.dump leaves of a lesson file when it raises part-way.
Truncated(lesson_id) == [kind |-> "text", n |-> 0, of |-> lesson_id]

(***************************************************************************)
(* importer.py                                                             *)
(***************************************************************************)
\* _sha256_file(path): the digest determines the content.
sha256_file(content) == [sha |-> content]

MissingFile(p) == [msg |-> "Missing file", path |-> p]
ChecksumMismatch(p) == [msg |-> "Checksum mismatch", path |-> p]

\* A verifier that passes over a listed file that is not there.
ChecksumEntryErrors_SkipMissing(tree, p, expected) ==
    IF p \notin DOMAIN tree THEN <<>>
    ELSE IF sha256_file(tree[p]) # expected THEN <<ChecksumMismatch(p)>>
    ELSE <<>>

\* The error, if any, of one entry of checksums.json.
ChecksumEntryErrors(tree, p, expected) ==
    IF p \notin DOMAIN tree THEN <<MissingFile(p)>>
    ELSE IF sha256_file(tree[p]) # expected THEN <<ChecksumMismatch(p)>>
    ELSE <<>>

RECURSIVE Concat(_)
Concat(ss) == IF ss = <<>> THEN <<>> ELSE Head(ss) \o Concat(Tail(ss))

\* _verify_checksums(pack_path)
verify_checksums(tree) ==
    IF ChecksumsPath \notin DOMAIN tree
    THEN Returned(<<[msg |-> "checksums.json not found - cannot verify integrity"]>>)
    ELSE LET r == ReadJson(tree[ChecksumsPath])
         IN IF ~r.ok
            THEN IF r.exc = "JSONDecodeError"
                 THEN Returned(<<[msg |-> "Invalid checksums.json"]>>)
                 ELSE Raised(r.exc)
            ELSE IF r.j.t # "sums"
                 THEN Raised("AttributeError")     \* expected.items() on a non-object
                 ELSE LET keys == SetToSeq(DOMAIN r.j.sums)
                      IN Returned(Concat([i \in 1..Len(keys) |->
                             ChecksumEntryErrors(tree, keys[i], r.j.sums[keys[i]])]))

\* Pack directories: candidate packs under src/, installed packs under lib/.
Loc(root, name) == [root |-> root, name |-> name]
LIBRARY == "lib"

InstalledPath(domain) == Loc(LIBRARY, domain)

Restrict(tree, S) == [p \in S |-> tree[p]]

\* What a failing copytree can leave at the destination: no directory, or a
\* directory that lacks the files whose copy failed.
CopyFailures(tree) ==
    {[ok |-> FALSE, left |-> NoDir]}
    \cup {[ok |-> FALSE, left |-> Dir(Restrict(tree, (DOMAIN tree) \ lost))] :
            lost \in {L \in SUBSET DOMAIN tree :
                        L # {} /\ Cardinality(L) <= MaxFailedCopies}}

\* A directory that is left in place.
rmtree_NoOp(d, path) == d

\* shutil.rmtree(path)
rmtree(d, path) == [d EXCEPT ![path] = NoDir]

\* shutil.copytree(src, dst) raises unless src exists and dst does not.
CanCopy(d, src, dst) == d[src].exists /\ ~d[dst].exists

\* shutil.copytree(src, dst), when it can copy and the file system works.
copytree(d, src, dst) == [d EXCEPT ![dst] = Dir(d[src].files)]

\* len(lesson_data.get('items', [])) of one copied lesson file.
CountItems(content) ==
    LET r == ReadJson(content)
    IN IF ~r.ok THEN [ok |-> FALSE, n |-> 0, exc |-> r.exc]
       ELSE IF r.j.t # "obj" THEN [ok |-> FALSE, n |-> 0, exc |-> "AttributeError"]
       ELSE IF "items" \notin DOMAIN r.j.m THEN [ok |-> TRUE, n |-> 0, exc |-> "none"]
       ELSE IF r.j.m["items"].t = "list"
            THEN [ok |-> TRUE, n |-> Len(r.j.m["items"].l), exc |-> "none"]
            ELSE [ok |-> FALSE, n |-> 0, exc |-> "TypeError"]   \* len() of a number or null

ImportRaised(pack, e) == [op |-> "install", kind |-> "raised", source_path |-> pack, exc |-> e]

\* _make_error_result
make_error_result(pack, errors, warnings) ==
    [op |-> "install", kind |-> "returned", domain |-> "", source_path |-> pack,
     installed_path |-> Loc(LIBRARY, ""), lessons_installed |-> 0,
     items_installed |-> 0, errors |-> errors, warnings |-> warnings]

Replacing(domain) == [msg |-> "Replacing existing curriculum", domain |-> domain]
FailedToInstall == [msg |-> "Failed to install pack"]

\* The counting loop of install over the copied lessons/*.json.
CountInstalled(tree) ==
    LET files == SetToSeq(LessonFiles(tree))
        counts == [i \in 1..Len(files) |-> CountItems(tree[files[i]])]
        bad == {i \in 1..Len(files) : ~counts[i].ok}
    IN IF bad # {}
       THEN [ok |-> FALSE, lessons |-> 0, items |-> 0,
             exc |-> counts[CHOOSE i \in bad : TRUE].exc]
       ELSE [ok |-> TRUE, lessons |-> Len(files),
             items |-> SumSeq([i \in 1..Len(files) |-> counts[i].n]), exc |-> "none"]

\* install(pack_path, target_path) on file system d: the file system, the
\* importer's lists and the result (or exception) it ends with.  `copy` is the
\* outcome of copytree, used only if the call gets that far.
install(d, le, pack, copy) ==
    LET src == d[pack]
        v == validate_manifest_file(src)
        End(d2, le2, errs, warns, res, reached) ==
            [disk |-> d2, libExists |-> le2, errors |-> errs, warnings |-> warns,
             result |-> res, reachedCopy |-> reached]
    IN IF v.raised THEN End(d, le, <<>>, <<>>, ImportRaised(pack, v.exc), FALSE)
       ELSE IF v.errors # <<>>
       THEN End(d, le, v.errors, <<>>, make_error_result(pack, v.errors, <<>>), FALSE)
       ELSE
       LET c == verify_checksums(src.files)
       IN IF c.raised THEN End(d, le, <<>>, <<>>, ImportRaised(pack, c.exc), FALSE)
          ELSE IF c.errors # <<>>
          THEN End(d, le, c.errors, <<>>, make_error_result(pack, c.errors, <<>>), FALSE)
          ELSE
          LET info == ReadJson(src.files[ManifestPath]).j.m["curriculum_info"]
          IN IF info.t # "obj"
             THEN \* manifest['curriculum_info']['domain'] on a list or a string
                  End(d, le, <<>>, <<>>, ImportRaised(pack, "TypeError"), FALSE)
             ELSE
             LET domain == info.m["domain"].s
                 installed_path == InstalledPath(domain)
                 existed == d[installed_path].exists
                 warns == IF existed THEN <<Replacing(domain)>> ELSE <<>>
                 d1 == IF existed THEN rmtree(d, installed_path) ELSE d
             IN IF ~CanCopy(d1, pack, installed_path)
                THEN \* the pack was its own installed copy: copytree finds no source
                     End(d1, TRUE, <<FailedToInstall>>, warns,
                         make_error_result(pack, <<FailedToInstall>>, warns), FALSE)
                ELSE IF ~copy.ok
                THEN End([d1 EXCEPT ![installed_path] = copy.left], TRUE,
                         <<FailedToInstall>>, warns,
                         make_error_result(pack, <<FailedToInstall>>, warns), TRUE)
                ELSE
                LET d2 == copytree(d1, pack, installed_path)
                    n == CountInstalled(d2[installed_path].files)
                IN IF ~n.ok THEN End(d2, TRUE, <<>>, warns, ImportRaised(pack, n.exc), TRUE)
                   ELSE End(d2, TRUE, <<>>, warns,
                            [op |-> "install", kind |-> "returned",
                             domain |-> domain, source_path |-> pack,
                             installed_path |-> installed_path,
                             lessons_installed |-> n.lessons,
                             items_installed |-> n.items,
                             errors |-> <<>>, warnings |-> warns], TRUE)

uninstall_AlwaysTrue(d, domain) ==
    [disk |-> [d EXCEPT ![InstalledPath(domain)] = NoDir], result |-> TRUE]

\* uninstall(domain, target_path)
uninstall(d, domain) ==
    LET installed_path == InstalledPath(domain)
    IN IF d[installed_path].exists
       THEN [disk |-> rmtree(d, installed_path), result |-> TRUE]
       ELSE [disk |-> d, result |-> FALSE]

\* A caller may keep a journal of the domains it installed with success and
\* has not uninstalled since; NoJournal when it keeps none.
NoJournal == [on |-> FALSE]
Journal(domains) == [on |-> TRUE, domains |-> domains]

\* The journal after an install that ended with res.
NowInstalled(journal, res) ==
    IF ~journal.on THEN journal
    ELSE IF res.kind = "returned" /\ success(res)
    THEN Journal(journal.domains \cup {res.domain})
    ELSE journal

\* The journal after uninstall(domain).
NowUninstalled(journal, domain) ==
    IF ~journal.on THEN journal ELSE Journal(journal.domains \ {domain})

\* A caller may keep the JcurImportResult it got last; NotKept when it drops
\* the results, NotHeld before it got the first.
NotKept == [on |-> FALSE]
NotHeld == [on |-> TRUE, given |-> FALSE]

\* The result object the caller holds after install ended as o.  A result
\* that is returned carries the very lists self.errors and self.warnings
\* (`aliased`); `returned` is what they held at the return.  When install
\* raises, the caller keeps the result it had, and self.errors and
\* self.warnings, rebound at the start of install, are new lists.
Held(held, o) ==
    IF ~held.on THEN held
    ELSE IF o.result.kind = "returned"
    THEN [on |-> TRUE, given |-> TRUE, aliased |-> TRUE,
          returned |-> [errors |-> o.errors, warnings |-> o.warnings],
          errors |-> o.errors, warnings |-> o.warnings]
    ELSE IF held.given THEN [held EXCEPT !.aliased = FALSE] ELSE held

\* The held result after self.errors and self.warnings have become `errors`
\* and `warnings` by an append.
Aliased(held, errors, warnings) ==
    IF held.on /\ held.given /\ held.aliased
    THEN [held EXCEPT !.errors = errors, !.warnings = warnings]
    ELSE held

(***************************************************************************)
(* exporter.py: export.                                                    *)
(***************************************************************************)
JFrac(a, b) == [t |-> "num", n |-> a, den |-> b]     \* the float a / b

ExportWarning(lesson_id) == [msg |-> "Error exporting lesson", lesson_id |-> lesson_id]

\* One turn of the loop `for lesson in lessons` of export.
ExportOneLesson(st, lesson) ==
    CASE lesson.fault = "attr" ->
           [st EXCEPT !.warnings = Append(@, ExportWarning(lesson.lesson_id))]
      [] lesson.fault = "dump" ->
           [st EXCEPT !.tree = Put(@, LessonPath(lesson.lesson_id),
                                   Truncated(lesson.lesson_id)),
                      !.warnings = Append(@, ExportWarning(lesson.lesson_id))]
      [] OTHER ->
           [st EXCEPT !.tree = Put(@, LessonPath(lesson.lesson_id),
                                   JsonFile(lesson_to_dict(lesson))),
                      !.total_items = @ + item_count(lesson),
                      !.categories =
                          Put(@, lesson.category,
                              (IF lesson.category \in DOMAIN @ THEN @[lesson.category]
                               ELSE 0) + item_count(lesson))]

RECURSIVE ExportLessons(_, _)
ExportLessons(st, lessons) ==
    IF lessons = <<>> THEN st
    ELSE ExportLessons(ExportOneLesson(st, Head(lessons)), Tail(lessons))

LessonIdsOf(lessons) == [i \in 1..Len(lessons) |-> lessons[i].lesson_id]

\* The document _create_index writes.
create_index(lessons) ==
    JObj([stages |->
              JList(<<JObj([name |-> JStr("All Lessons"),
                            lessons |-> JStrList(LessonIdsOf(lessons)),
                            unlock_condition |-> JNull])>>),
          recommended_order |-> JStrList(LessonIdsOf(lessons))])

\* _copy_assets(source, dest): copytree with dirs_exist_ok, under assets/.
copy_assets(tree, assets) ==
    LET Dest(p) == Path(<<"assets">> \o p.dir, p.stem, p.ext)
        dests == {Dest(p) : p \in DOMAIN assets}
    IN [q \in (DOMAIN tree) \cup dests |->
           IF q \in dests
           THEN assets[CHOOSE p \in DOMAIN assets : Dest(p) = q]
           ELSE tree[q]]

\* The files _compute_checksums hashes: file_path.name != 'checksums.json'.
ChecksummedFiles(tree) ==
    {p \in DOMAIN tree : ~(p.stem = "checksums" /\ p.ext = "json")}

\* _compute_checksums(pack_path)
compute_checksums(tree) == [p \in ChecksummedFiles(tree) |-> sha256_file(tree[p])]

\* The manifest export saves: create_manifest with the statistics overwritten.
ExportManifest(domain, name, lessons, total_items, categories) ==
    LET m == create_manifest(domain, name)
        stats == JObj([total_lessons |-> JNum(Len(lessons)),
                       total_items |-> JNum(total_items),
                       estimated_hours |->
                           JFrac(SumSeq([i \in 1..Len(lessons) |->
                                            lessons[i].estimated_minutes]), 60),
                       categories |->
                           JObj([c \in DOMAIN categories |-> JNum(categories[c])])])
    IN JObj([m.m EXCEPT !["statistics"] = stats])

NoAssets == [exists |-> FALSE, files |-> EmptyTree]
NoInput == [given |-> FALSE]

\* export(output_path, domain, name, ..., lessons, assets_path) into the
\* directory `before` (absent, or a tree that is already there): the directory
\* it leaves and the result it returns.  mkdirFails: the first mkdir raises.
export(before, pack_path, domain, name, lessons, assets, mkdirFails) ==
    IF mkdirFails
    THEN [dir |-> before,
          result |-> [op |-> "export", kind |-> "returned", path |-> pack_path,
                      domain |-> domain, name |-> name, total_lessons |-> 0, total_items |-> 0,
                      errors |-> <<[msg |-> "Failed to create pack directory"]>>,
                      warnings |-> <<>>]]
    ELSE
    LET st0 == [tree |-> before.files, total_items |-> 0,
                categories |-> [c \in {} |-> 0], warnings |-> <<>>]
        st == ExportLessons(st0, lessons)
        t1 == Put(st.tree, IndexPath, JsonFile(create_index(lessons)))
        t2 == IF assets.exists THEN copy_assets(t1, assets.files) ELSE t1
        t3 == Put(t2, ManifestPath,
                  JsonFile(ExportManifest(domain, name, lessons,
                                          st.total_items, st.categories)))
        t4 == Put(t3, ChecksumsPath, JsonFile(JSums(compute_checksums(t3))))
    IN [dir |-> Dir(t4),
        result |-> [op |-> "export", kind |-> "returned", path |-> pack_path,
                    domain |-> domain, name |-> name, total_lessons |-> Len(lessons),
                    total_items |-> st.total_items,
                    errors |-> <<>>, warnings |-> st.warnings]]

(***************************************************************************)
(* types.py: from_dict.                                                    *)
(***************************************************************************)
\* The Python value of a JSON string, number, null or list of those.
RECURSIVE PyVal(_)
PyVal(j) ==
    CASE j.t = "str" -> j.s
      [] j.t = "num" -> j.n
      [] j.t = "null" -> None
      [] OTHER -> [i \in 1..Len(j.l) |-> PyVal(j.l[i])]

Built(v) == [ok |-> TRUE, v |-> v]
TypeError == [ok |-> FALSE, v |-> [exc |-> "TypeError"]]

\* Example(**ex)
example_from_dict(j) ==
    [target |-> PyVal(j.m["target"]), source |-> PyVal(j.m["source"]),
     reading |-> IF "reading" \in DOMAIN j.m THEN PyVal(j.m["reading"]) ELSE None]

ITEM_REQUIRED == {"id", "type", "target", "source"}
ITEM_FIELDS == DOMAIN CurriculumItem("", "")

\* CurriculumItem.from_dict(d): cls(examples=examples, **d) raises TypeError on
\* a missing required field and on a key that is no field.
item_from_dict(j) ==
    IF j.t # "obj" THEN TypeError
    ELSE LET keys == (DOMAIN j.m) \ {"examples"}
         IN IF ~(ITEM_REQUIRED \subseteq keys) \/ ~(keys \subseteq ITEM_FIELDS)
            THEN TypeError
            ELSE Built([f \in ITEM_FIELDS |->
                     IF f = "examples"
                     THEN IF "examples" \in DOMAIN j.m
                          THEN [i \in 1..Len(j.m["examples"].l) |->
                                   example_from_dict(j.m["examples"].l[i])]
                          ELSE <<>>
                     ELSE IF f \in keys THEN PyVal(j.m[f])
                     ELSE CurriculumItem("", "")[f]])

LESSON_REQUIRED == {"lesson_id", "title", "description", "category", "difficulty"}
LESSON_FIELDS == LESSON_REQUIRED \cup {"prerequisites", "estimated_minutes", "tags"}

\* Lesson.from_dict(d)
lesson_from_dict(j) ==
    IF j.t # "obj" THEN TypeError
    ELSE LET keys == (DOMAIN j.m) \ {"items"}
             raw == IF "items" \in DOMAIN j.m THEN j.m["items"].l ELSE <<>>
             items == [i \in 1..Len(raw) |-> item_from_dict(raw[i])]
         IN IF \E i \in 1..Len(raw) : ~items[i].ok THEN TypeError
            ELSE IF ~(LESSON_REQUIRED \subseteq keys) \/ ~(keys \subseteq LESSON_FIELDS)
            THEN TypeError
            ELSE Built([f \in LESSON_FIELDS \cup {"items", "fault"} |->
                     CASE f = "items" -> [i \in 1..Len(raw) |-> items[i].v]
                       [] f = "fault" -> "none"
                       [] f \in keys -> PyVal(j.m[f])
                       [] OTHER -> Lesson("", "", <<>>)[f]])

NoCondition == [present |-> FALSE]
UnlockCondition(stage, mastery) == [present |-> TRUE, stage |-> stage, mastery |-> mastery]
Stage(name, lessons, cond) == [name |-> name, lessons |-> lessons, unlock_condition |-> cond]
CurriculumIndex(stages, order) == [stages |-> stages, recommended_order |-> order]

DEFAULT_MASTERY == 8      \* 0.8; mastery levels are counted in tenths

\* UnlockCondition.from_dict(d)
unlock_from_dict(j) ==
    IF j.t = "null" THEN NoCondition
    ELSE UnlockCondition(PyVal(j.m["stage"]),
                         IF "mastery" \in DOMAIN j.m THEN PyVal(j.m["mastery"])
                         ELSE DEFAULT_MASTERY)

\* Stage.from_dict(d)
stage_from_dict(j) ==
    Stage(PyVal(j.m["name"]), PyVal(j.m["lessons"]),
          IF "unlock_condition" \in DOMAIN j.m
          THEN unlock_from_dict(j.m["unlock_condition"]) ELSE NoCondition)

\* CurriculumIndex.from_dict(d)
index_from_dict(j) ==
    CurriculumIndex(
        IF "stages" \in DOMAIN j.m
        THEN [i \in 1..Len(j.m["stages"].l) |-> stage_from_dict(j.m["stages"].l[i])]
        ELSE <<>>,
        IF "recommended_order" \in DOMAIN j.m
        THEN PyVal(j.m["recommended_order"]) ELSE <<>>)

(***************************************************************************)
(* loader.py                                                               *)
(***************************************************************************)
MAX_CACHED_LESSONS == 10

NoIndex == [present |-> FALSE]
NotLoaded == [loaded |-> FALSE]

\* CurriculumPack.load(path): the pack object, or the exception.  index.json,
\* when present, is taken to hold an index document.
load(dir) ==
    IF ~dir.exists THEN [ok |-> FALSE, exc |-> "FileNotFoundError"]
    ELSE IF ManifestPath \notin DOMAIN dir.files THEN [ok |-> FALSE, exc |-> "ValueError"]
    ELSE LET r == ReadJson(dir.files[ManifestPath])
         IN IF ~r.ok THEN [ok |-> FALSE, exc |-> r.exc]
            ELSE LET v == validate_manifest(r.j)
                 IN IF v.raised THEN [ok |-> FALSE, exc |-> v.exc]
                    ELSE IF v.errors # <<>> THEN [ok |-> FALSE, exc |-> "ValueError"]
                    ELSE IF IndexPath \notin DOMAIN dir.files
                    THEN [ok |-> TRUE, exc |-> "none",
                          pack |-> [loaded |-> TRUE, manifest |-> r.j, index |-> NoIndex]]
                    ELSE LET x == ReadJson(dir.files[IndexPath])
                         IN IF ~x.ok THEN [ok |-> FALSE, exc |-> x.exc]
                            ELSE [ok |-> TRUE, exc |-> "none",
                                  pack |-> [loaded |-> TRUE, manifest |-> r.j,
                                            index |-> [present |-> TRUE,
                                                       v |-> index_from_dict(x.j)]]]

\* sorted(...) of a set of strings: TLC orders strings only by equality, so the
\* lexicographic order of the stems the model uses is written out.
StemOrder == <<"a", "b", "c", "old", "x">>

Sorted(stems) == SelectSeq(StemOrder, LAMBDA x : x \in stems)

get_lesson_ids_ScanOnly(pk, tree) == Sorted({p.stem : p \in LessonFiles(tree)})

\* get_lesson_ids()
get_lesson_ids(pk, tree) ==
    IF pk.index.present /\ pk.index.v.recommended_order # <<>>
    THEN pk.index.v.recommended_order
    ELSE Sorted({p.stem : p \in LessonFiles(tree)})

CachedIds(cache) == [i \in 1..Len(cache) |-> cache[i].id]

EvictOldest_Never(cache) == cache

\* `while len(cache) >= MAX_CACHED_LESSONS: cache.popitem(last=False)`
RECURSIVE EvictOldest(_)
EvictOldest(cache) ==
    IF Len(cache) >= MAX_CACHED_LESSONS THEN EvictOldest(Tail(cache)) ELSE cache

move_to_end_Stay(cache, lesson_id) == cache

\* OrderedDict.move_to_end(lesson_id)
move_to_end(cache, lesson_id) ==
    LET i == CHOOSE k \in 1..Len(cache) : cache[k].id = lesson_id
    IN SelectSeq(cache, LAMBDA e : e.id # lesson_id) \o <<cache[i]>>

\* get_lesson with a cache that puts a lesson it loads in front of the others.
get_lesson_Prepend(tree, cache, lesson_id) ==
    IF lesson_id \in Range(CachedIds(cache))
    THEN LET i == CHOOSE k \in 1..Len(cache) : cache[k].id = lesson_id
         IN [outcome |-> "hit", exc |-> "none", lesson |-> cache[i].lesson,
             cache |-> move_to_end(cache, lesson_id)]
    ELSE IF LessonPath(lesson_id) \notin DOMAIN tree
    THEN [outcome |-> "raised", exc |-> "FileNotFoundError", cache |-> cache]
    ELSE LET l == lesson_from_dict(ReadJson(tree[LessonPath(lesson_id)]).j)
         IN [outcome |-> "miss", exc |-> "none", lesson |-> l.v,
             cache |-> <<[id |-> lesson_id, lesson |-> l.v]>> \o EvictOldest(cache)]

\* get_lesson(lesson_id) with the cache as an OrderedDict, oldest entry first.
get_lesson(tree, cache, lesson_id) ==
    IF lesson_id \in Range(CachedIds(cache))
    THEN LET i == CHOOSE k \in 1..Len(cache) : cache[k].id = lesson_id
         IN [outcome |-> "hit", exc |-> "none", lesson |-> cache[i].lesson,
             cache |-> move_to_end(cache, lesson_id)]
    ELSE IF LessonPath(lesson_id) \notin DOMAIN tree
    THEN [outcome |-> "raised", exc |-> "FileNotFoundError", cache |-> cache]
    ELSE LET r == ReadJson(tree[LessonPath(lesson_id)])
             l == lesson_from_dict(r.j)
         IN IF ~r.ok THEN [outcome |-> "raised", exc |-> r.exc, cache |-> cache]
            ELSE IF ~l.ok THEN [outcome |-> "raised", exc |-> "TypeError", cache |-> cache]
            ELSE [outcome |-> "miss", exc |-> "none", lesson |-> l.v,
                  cache |-> Append(EvictOldest(cache), [id |-> lesson_id, lesson |-> l.v])]

\* list(get_lessons()): the walk over get_lesson_ids(), which ends at the
\* first get_lesson that raises.
RECURSIVE WalkLessons(_, _, _, _)
WalkLessons(tree, cache, ids, acc) ==
    IF ids = <<>> THEN [ok |-> TRUE, exc |-> "none", lessons |-> acc, cache |-> cache]
    ELSE LET g == get_lesson(tree, cache, Head(ids))
         IN IF g.outcome = "raised"
            THEN [ok |-> FALSE, exc |-> g.exc, lessons |-> acc, cache |-> g.cache]
            ELSE WalkLessons(tree, g.cache, Tail(ids), Append(acc, g.lesson))

get_lessons(pk, tree, cache) == WalkLessons(tree, cache, get_lesson_ids(pk, tree), <<>>)

\* list(get_all_items())
get_all_items(pk, tree, cache) ==
    LET w == get_lessons(pk, tree, cache)
    IN [ok |-> w.ok, exc |-> w.exc, cache |-> w.cache, lessons |-> w.lessons,
        items |-> Concat([i \in 1..Len(w.lessons) |-> w.lessons[i].items])]

\* dict.get(key, default)
DictGet(d, key, default) == IF key \in DOMAIN d THEN d[key] ELSE default

Locked_AtThreshold(stage, mastery) ==
    /\ stage.unlock_condition.present
    /\ DictGet(mastery, stage.unlock_condition.stage, 0) <= stage.unlock_condition.mastery

\* A test that skips the stage when the level is above the one required.
Locked_Above(stage, mastery) ==
    /\ stage.unlock_condition.present
    /\ DictGet(mastery, stage.unlock_condition.stage, 0) > stage.unlock_condition.mastery

\* The test in the loop of get_unlocked_lessons that skips a stage.
Locked(stage, mastery) ==
    /\ stage.unlock_condition.present
    /\ DictGet(mastery, stage.unlock_condition.stage, 0) < stage.unlock_condition.mastery

RECURSIVE UnlockLoop(_, _, _)
UnlockLoop(stages, mastery, unlocked) ==
    IF stages = <<>> THEN unlocked
    ELSE UnlockLoop(Tail(stages), mastery,
                    IF Locked(Head(stages), mastery) THEN unlocked
                    ELSE unlocked \o Head(stages).lessons)

\* get_unlocked_lessons(mastery)
get_unlocked_lessons(pk, tree, mastery) ==
    IF ~pk.index.present THEN get_lesson_ids(pk, tree)
    ELSE UnlockLoop(pk.index.v.stages, mastery, <<>>)

\* get_stage_lessons(stage_name)
get_stage_lessons(pk, stage_name) ==
    IF ~pk.index.present THEN <<>>
    ELSE LET stages == pk.index.v.stages
             hits == {i \in 1..Len(stages) : stages[i].name = stage_name}
         IN IF hits = {} THEN <<>>
            ELSE stages[CHOOSE i \in hits : \A k \in hits : i <= k].lessons

\* dict.get(key, default) on a JSON object, the value left as JSON.
JGet(obj, key, default) == IF key \in DOMAIN obj.m THEN obj.m[key] ELSE default

\* get_info(): the JcurPackInfo, or the exception one of the properties raises.
\* m['curriculum_info'][...] needs an object (a list or a string raises
\* TypeError); m['statistics'] and m['source'] must be there (KeyError).
get_info(pk, path) ==
    LET m == pk.manifest.m
        info == m["curriculum_info"]
    IN IF info.t # "obj" THEN [ok |-> FALSE, exc |-> "TypeError"]
       ELSE IF "statistics" \notin DOMAIN m \/ "source" \notin DOMAIN m
       THEN [ok |-> FALSE, exc |-> "KeyError"]
       ELSE [ok |-> TRUE, exc |-> "none",
             info |-> [name |-> info.m["name"],
                       domain |-> info.m["domain"],
                       path |-> path,
                       source_language |-> info.m["source_language"],
                       target_language |-> info.m["target_language"],
                       level |-> JGet(info, "level", JStr("beginner")),
                       total_lessons |-> JGet(m["statistics"], "total_lessons", JNum(0)),
                       total_items |-> JGet(m["statistics"], "total_items", JNum(0)),
                       estimated_hours |-> JGet(m["statistics"], "estimated_hours", JNum(0)),
                       description |-> JGet(info, "description", JStr("")),
                       author |-> JGet(m["source"], "author", JStr("")),
                       version |-> JGet(m["source"], "version", JStr("1.0.0")),
                       tags |-> JGet(info, "tags", JList(<<>>)),
                       categories |-> JGet(m["statistics"], "categories", JObj(NoKeys))]]

\* The properties that read the manifest: by subscript, or with .get and a
\* default.
INFO_REQUIRED_PROPERTIES == {"name", "domain", "source_language", "target_language"}
INFO_PROPERTIES == {"description", "level", "tags"}
STATISTICS_PROPERTIES == {"total_lessons", "total_items", "estimated_hours"}
SOURCE_PROPERTIES == {"author", "version"}
MANIFEST_PROPERTIES ==
    INFO_REQUIRED_PROPERTIES \cup INFO_PROPERTIES \cup STATISTICS_PROPERTIES
        \cup SOURCE_PROPERTIES

PropertyDefault(prop) ==
    CASE prop = "description" -> JStr("")
      [] prop = "level" -> JStr("beginner")
      [] prop = "tags" -> JList(<<>>)
      [] prop = "author" -> JStr("")
      [] prop = "version" -> JStr("1.0.0")
      [] OTHER -> JNum(0)

\* pack.<prop>: self._manifest[section][prop], or
\* self._manifest[section].get(prop, default).
manifest_property(pk, prop) ==
    LET m == pk.manifest.m
        section == IF prop \in STATISTICS_PROPERTIES THEN "statistics"
                   ELSE IF prop \in SOURCE_PROPERTIES THEN "source"
                   ELSE "curriculum_info"
    IN IF section \notin DOMAIN m THEN Raised("KeyError")
       ELSE IF prop \in INFO_REQUIRED_PROPERTIES
       THEN IF m[section].t # "obj" THEN Raised("TypeError")
            ELSE IF prop \notin DOMAIN m[section].m THEN Raised("KeyError")
            ELSE [raised |-> FALSE, value |-> m[section].m[prop]]
       ELSE IF m[section].t # "obj" THEN Raised("AttributeError")
            ELSE [raised |-> FALSE, value |-> JGet(m[section], prop, PropertyDefault(prop))]

\* `pack = CurriculumPack.load(p); pack.get_info()` under one try.
LoadInfo(dir, path) ==
    LET o == load(dir)
    IN IF ~o.ok THEN [ok |-> FALSE, exc |-> o.exc] ELSE get_info(o.pack, path)

ErrorLoading(path) == [msg |-> "Error loading", path |-> path]

\* The loop of list_installed over the directories target/*.jcur, met in the
\* order `found`.
RECURSIVE ListLoop(_, _, _, _)
ListLoop(d, found, packs, warnings) ==
    IF found = <<>> THEN [packs |-> packs, warnings |-> warnings]
    ELSE LET o == LoadInfo(d[Head(found)], Head(found))
         IN IF o.ok THEN ListLoop(d, Tail(found), Append(packs, o.info), warnings)
            ELSE ListLoop(d, Tail(found), packs,
                          Append(warnings, ErrorLoading(Head(found))))

\* The directories target_path.glob('*.jcur') can yield, in any order.
GlobOrders(d, target) ==
    LET S == {l \in DOMAIN d : l.root = target /\ d[l].exists}
    IN {seq \in [1..Cardinality(S) -> S] : Range(seq) = S}

list_installed_Silent(d, targetExists, found, warnings) ==
    [packs |-> ListLoop(d, found, <<>>, warnings).packs, warnings |-> warnings]

\* list_installed(target_path), self.warnings being `warnings` at the call.
list_installed(d, targetExists, found, warnings) ==
    IF ~targetExists THEN [packs |-> <<>>, warnings |-> warnings]
    ELSE ListLoop(d, found, <<>>, warnings)

\* get_pack_info(pack_path): the JcurPackInfo, or None ([present |-> FALSE]).
get_pack_info(d, path) ==
    LET o == LoadInfo(d[path], path)
    IN IF o.ok THEN [present |-> TRUE, info |-> o.info] ELSE [present |-> FALSE]

(***************************************************************************)
(* The importer's world: two candidate packs made by export, the first of  *)
(* which the environment may then edit, and a target library.              *)
(***************************************************************************)
Domains == {"D1", "D2"}
S1 == Loc("src", "S1")
S2 == Loc("src", "S2")
Sources == {S1, S2}
LibSlots == {InstalledPath(dom) : dom \in Domains}
Locations == Sources \cup LibSlots

Item1 == CurriculumItem("i1", "vocabulary")
Item2 == CurriculumItem("i2", "phrase")
Item3 == CurriculumItem("i3", "dialogue")
LessonA == Lesson("a", "vocab", <<Item1>>)
LessonB == Lesson("b", "grammar", <<>>)
LessonC == Lesson("c", "vocab", <<Item2, Item3>>)

PackA == export(NoDir, S1, "D1", "Pack A", <<LessonA, LessonB>>, NoAssets, FALSE).dir
PackB == export(NoDir, S2, "D2", "Pack B", <<LessonC>>, NoAssets, FALSE).dir

NotesPath == Path(<<>>, "notes", "txt")

\* Manifests an edited pack may hold.
WithInfo(info) == JObj([create_manifest("D1", "x").m EXCEPT !["curriculum_info"] = info])
ManifestContents ==
    {Text(1), Bin(1), JsonFile(JList(<<>>)), JsonFile(JNull),
     JsonFile(JObj(Remove(create_manifest("D1", "x").m, "format_version"))),
     JsonFile(JObj([create_manifest("D1", "x").m EXCEPT !["format_version"] = JStr("2.0")])),
     JsonFile(WithInfo(JNull)),
     JsonFile(WithInfo(JStrList(REQUIRED_CURRICULUM_INFO))),
     JsonFile(WithInfo(JStr(AllInfoFieldsText))),
     JsonFile(WithInfo(JObj([name |-> JStr("x")]))),
     JsonFile(JObj(Remove(create_manifest("D1", "x").m, "statistics"))),
     JsonFile(create_manifest("D1", "other")),
     JsonFile(create_manifest("D2", "other"))}

ChecksumContents == {Text(1), JsonFile(JList(<<>>)), JsonFile(JSums(EmptyTree))}

LessonContents ==
    {Text(1), JsonFile(JList(<<>>)),
     JsonFile(lesson_to_dict(Lesson("a", "vocab", <<Item3>>)))}

Pool(p) ==
    CASE p = ManifestPath -> ManifestContents
      [] p = ChecksumsPath -> ChecksumContents
      [] p.dir = <<"lessons">> -> LessonContents
      [] OTHER -> {Text(2), Text(3)}

AddablePaths == {NotesPath, LessonPath("x")}

InitImport ==
    /\ disk = [l \in Locations |->
                  IF l = S1 THEN PackA ELSE IF l = S2 THEN PackB ELSE NoDir]
    /\ libExists = FALSE
    /\ installed_domains = NoJournal
    /\ held_result = NotKept
    /\ imp_errors = <<>>
    /\ imp_warnings = <<>>
    /\ result = [op |-> "init"]
    /\ tampers = 0
    /\ iofaults = 0
    /\ exp_input = NoInput
    /\ exports = 0
    /\ curriculum_pack = NotLoaded
    /\ lessons_cache = <<>>
    /\ recency = <<>>
    /\ walk_pos = 0

\* The environment overwrites a file of a candidate pack.
CorruptFile(loc, p) ==
    /\ tampers < MaxTampers
    /\ p \in DOMAIN disk[loc].files
    /\ \E c \in Pool(p) :
          /\ c # disk[loc].files[p]
          /\ disk' = [disk EXCEPT ![loc].files = Put(@, p, c)]
    /\ tampers' = tampers + 1
    /\ result' = [op |-> "tamper"]
    /\ UNCHANGED <<libExists, imp_errors, imp_warnings, iofaults>>
    /\ UNCHANGED <<installed_domains, held_result>>
    /\ UNCHANGED <<exp_input, exports, curriculum_pack, lessons_cache, recency, walk_pos>>

\* The environment deletes a file of a candidate pack.
DeleteFile(loc, p) ==
    /\ tampers < MaxTampers
    /\ p \in DOMAIN disk[loc].files
    /\ disk' = [disk EXCEPT ![loc].files = Remove(@, p)]
    /\ tampers' = tampers + 1
    /\ result' = [op |-> "tamper"]
    /\ UNCHANGED <<libExists, imp_errors, imp_warnings, iofaults>>
    /\ UNCHANGED <<installed_domains, held_result>>
    /\ UNCHANGED <<exp_input, exports, curriculum_pack, lessons_cache, recency, walk_pos>>

\* The environment adds a file to a candidate pack.
AddFile(loc, p) ==
    /\ tampers < MaxTampers
    /\ p \notin DOMAIN disk[loc].files
    /\ \E c \in Pool(p) : disk' = [disk EXCEPT ![loc].files = Put(@, p, c)]
    /\ tampers' = tampers + 1
    /\ result' = [op |-> "tamper"]
    /\ UNCHANGED <<libExists, imp_errors, imp_warnings, iofaults>>
    /\ UNCHANGED <<installed_domains, held_result>>
    /\ UNCHANGED <<exp_input, exports, curriculum_pack, lessons_cache, recency, walk_pos>>

\* The environment rewrites checksums.json of a candidate pack to match its
\* files as they are now.
Reseal(loc) ==
    /\ disk[loc].exists
    /\ LET sealed == Put(disk[loc].files, ChecksumsPath,
                         JsonFile(JSums(compute_checksums(disk[loc].files))))
       IN /\ sealed # disk[loc].files
          /\ disk' = [disk EXCEPT ![loc].files = sealed]
    /\ result' = [op |-> "tamper"]
    /\ UNCHANGED <<libExists, imp_errors, imp_warnings, tampers, iofaults>>
    /\ UNCHANGED <<installed_domains, held_result>>
    /\ UNCHANGED <<exp_input, exports, curriculum_pack, lessons_cache, recency, walk_pos>>

CopyOk == [ok |-> TRUE, left |-> NoDir]

\* importer.install(pack_path, target_path), the file system working.
Install(pack) ==
    LET o == install(disk, libExists, pack, CopyOk)
    IN /\ disk' = o.disk
       /\ libExists' = o.libExists
       /\ imp_errors' = o.errors
       /\ imp_warnings' = o.warnings
       /\ result' = o.result
       /\ installed_domains' = NowInstalled(installed_domains, o.result)
       /\ held_result' = Held(held_result, o)
       /\ UNCHANGED <<tampers, iofaults, exp_input, exports, curriculum_pack, lessons_cache, recency, walk_pos>>

\* importer.install(pack_path, target_path) when copytree raises.
InstallCopyFails(pack) ==
    /\ iofaults < MaxIOFaults
    /\ install(disk, libExists, pack, CopyOk).reachedCopy
    /\ \E copy \in CopyFailures(disk[pack].files) :
          LET o == install(disk, libExists, pack, copy)
          IN /\ disk' = o.disk
             /\ libExists' = o.libExists
             /\ imp_errors' = o.errors
             /\ imp_warnings' = o.warnings
             /\ result' = o.result
             /\ installed_domains' = NowInstalled(installed_domains, o.result)
             /\ held_result' = Held(held_result, o)
    /\ iofaults' = iofaults + 1
    /\ UNCHANGED <<tampers, exp_input, exports, curriculum_pack, lessons_cache, recency, walk_pos>>

\* importer.uninstall(domain, target_path)
Uninstall(domain) ==
    LET o == uninstall(disk, domain)
    IN /\ disk' = o.disk
       /\ result' = [op |-> "uninstall", kind |-> "returned", domain |-> domain,
                     value |-> o.result]
       /\ installed_domains' = NowUninstalled(installed_domains, domain)
       /\ UNCHANGED <<libExists, imp_errors, imp_warnings, tampers, iofaults, held_result>>
       /\ UNCHANGED <<exp_input, exports, curriculum_pack, lessons_cache, recency, walk_pos>>

\* Whether the directory `target` exists.
TargetExists(target) == IF target = LIBRARY THEN libExists ELSE TRUE

\* importer.list_installed(target)
ListInstalled(target) ==
    /\ Len(imp_warnings) < MaxWarnings
    /\ \E found \in GlobOrders(disk, target) :
           LET o == list_installed(disk, TargetExists(target), found, imp_warnings)
           IN /\ imp_warnings' = o.warnings
              /\ held_result' = Aliased(held_result, imp_errors, o.warnings)
              /\ result' = [op |-> "list_installed", kind |-> "returned",
                            target |-> target, packs |-> o.packs]
    /\ UNCHANGED <<disk, libExists, imp_errors, tampers, iofaults, installed_domains>>
    /\ UNCHANGED <<exp_input, exports, curriculum_pack, lessons_cache, recency, walk_pos>>

\* importer.get_pack_info(path)
GetPackInfo(path) ==
    /\ result' = [op |-> "get_pack_info", kind |-> "returned", path |-> path,
                  value |-> get_pack_info(disk, path)]
    /\ UNCHANGED <<disk, libExists, imp_errors, imp_warnings, tampers, iofaults>>
    /\ UNCHANGED <<installed_domains, held_result>>
    /\ UNCHANGED <<exp_input, exports, curriculum_pack, lessons_cache, recency, walk_pos>>

NextImport ==
    \/ \E p \in {ManifestPath, ChecksumsPath, LessonPath("a"), NotesPath} :
           CorruptFile(S1, p)
    \/ \E p \in {ManifestPath, ChecksumsPath, LessonPath("b"), LessonPath("x")} :
           DeleteFile(S1, p)
    \/ \E p \in AddablePaths : AddFile(S1, p)
    \/ Reseal(S1)
    \/ \E pack \in Locations : Install(pack)
    \/ \E dom \in Domains : Uninstall(dom)

SpecImport == InitImport /\ [][NextImport]_vars

\* The same, on a file system whose copies can fail.
NextImportIO ==
    \/ NextImport
    \/ \E pack \in Locations : InstallCopyFails(pack)

SpecImportIO == InitImport /\ [][NextImportIO]_vars

\* The same as SpecImport, with the library and the candidates listed and
\* inspected in between.
NextListing ==
    \/ NextImport
    \/ \E target \in {LIBRARY, "src"} : ListInstalled(target)
    \/ \E path \in Locations : GetPackInfo(path)

SpecListing == InitImport /\ [][NextListing]_vars

(***************************************************************************)
(* The exporter's world: export writes the pack out/demo.jcur, again and   *)
(* again into the same directory; a consumer then loads the pack and walks *)
(* it.                                                                     *)
(***************************************************************************)
MaxLessons == 2       \* lessons in one call of export
MaxExports == 2       \* calls of export into the same directory

OutPack == Loc("out", "demo")

LessonA2 == Lesson("a", "grammar", <<Item2, Item3>>)      \* the id of LessonA again
LessonCattr == [LessonC EXCEPT !.fault = "attr"]
LessonBdump == [Lesson("b", "vocab", <<Item3>>) EXCEPT !.fault = "dump"]
LessonPool == {LessonA, LessonA2, LessonC, LessonCattr, LessonBdump}

LessonLists == UNION {[1..n -> LessonPool] : n \in 0..MaxLessons}

\* Asset directories: a picture; a file named checksums.json and a
\* sub-directory.
AssetDirs ==
    {NoAssets,
     Dir([p \in {Path(<<>>, "img", "png")} |-> Bin(7)]),
     Dir([p \in {Path(<<>>, "checksums", "json"), Path(<<"clips">>, "x", "mp3")} |->
             IF p.stem = "x" THEN Bin(8) ELSE Text(5)])}

InitExport ==
    /\ disk = [l \in {OutPack} |-> NoDir]
    /\ libExists = FALSE
    /\ installed_domains = NoJournal
    /\ held_result = NotKept
    /\ imp_errors = <<>>
    /\ imp_warnings = <<>>
    /\ result = [op |-> "init"]
    /\ tampers = 0
    /\ iofaults = 0
    /\ exp_input = NoInput
    /\ exports = 0
    /\ curriculum_pack = NotLoaded
    /\ lessons_cache = <<>>
    /\ recency = <<>>
    /\ walk_pos = 0

\* exporter.export(...); the consumer's pack object, if any, is dropped.
Export(lessons, assets, mkdirFails) ==
    LET o == export(disk[OutPack], OutPack, "demo", "Demo", lessons, assets, mkdirFails)
    IN /\ exports < MaxExports
       /\ exports' = exports + 1
       /\ disk' = [disk EXCEPT ![OutPack] = o.dir]
       /\ result' = o.result
       /\ exp_input' = [given |-> TRUE, lessons |-> lessons, ok |-> success(o.result),
                        returned |-> o.result]
       /\ curriculum_pack' = NotLoaded
       /\ lessons_cache' = <<>>
       /\ recency' = <<>>
       /\ walk_pos' = 0
       /\ UNCHANGED importVars

\* CurriculumPack.load(path)
Load(loc) ==
    LET o == load(disk[loc])
    IN /\ curriculum_pack' = IF o.ok THEN o.pack ELSE NotLoaded
       /\ lessons_cache' = <<>>
       /\ recency' = <<>>
       /\ result' = IF o.ok THEN [op |-> "load", kind |-> "returned", path |-> loc]
                    ELSE [op |-> "load", kind |-> "raised", path |-> loc, exc |-> o.exc]
       /\ UNCHANGED <<disk, exp_input, exports, walk_pos>>
       /\ UNCHANGED importVars

\* pack.get_lesson_ids()
GetLessonIds(loc) ==
    /\ curriculum_pack.loaded
    /\ result' = [op |-> "get_lesson_ids", kind |-> "returned",
                  ids |-> get_lesson_ids(curriculum_pack, disk[loc].files)]
    /\ UNCHANGED <<disk, exp_input, exports, curriculum_pack, lessons_cache, recency, walk_pos>>
    /\ UNCHANGED importVars

\* The recency order after get_lesson has returned lesson id.
Touch(order, id) == SelectSeq(order, LAMBDA x : x # id) \o <<id>>

RECURSIVE TouchAll(_, _)
TouchAll(order, ids) ==
    IF ids = <<>> THEN order ELSE TouchAll(Touch(order, Head(ids)), Tail(ids))

\* list(pack.get_all_items())
GetAllItems(loc) ==
    /\ curriculum_pack.loaded
    /\ LET o == get_all_items(curriculum_pack, disk[loc].files, lessons_cache)
           ids == get_lesson_ids(curriculum_pack, disk[loc].files)
       IN /\ lessons_cache' = o.cache
          /\ recency' = TouchAll(recency, SubSeq(ids, 1, Len(o.lessons)))
          /\ result' = IF o.ok
                       THEN [op |-> "get_all_items", kind |-> "returned", items |-> o.items]
                       ELSE [op |-> "get_all_items", kind |-> "raised", exc |-> o.exc]
    /\ UNCHANGED <<disk, exp_input, exports, curriculum_pack, walk_pos>>
    /\ UNCHANGED importVars

\* pack.get_unlocked_lessons(mastery)
GetUnlockedLessons(loc, mastery) ==
    /\ curriculum_pack.loaded
    /\ result' = [op |-> "get_unlocked_lessons", mastery |-> mastery,
                  ids |-> get_unlocked_lessons(curriculum_pack, disk[loc].files, mastery)]
    /\ UNCHANGED <<disk, curriculum_pack, lessons_cache, recency, walk_pos>>
    /\ UNCHANGED importVars
    /\ UNCHANGED exportVars

\* Mastery maps a learner of an exported pack may pass.
ExportMasteryMaps == {[n \in {} |-> 0], [n \in {"All Lessons"} |-> 9]}

NextExport ==
    \/ \E lessons \in LessonLists, assets \in AssetDirs, mkdirFails \in BOOLEAN :
           Export(lessons, assets, mkdirFails)
    \/ Load(OutPack)
    \/ GetLessonIds(OutPack)
    \/ GetAllItems(OutPack)
    \/ \E mastery \in ExportMasteryMaps : GetUnlockedLessons(OutPack, mastery)

SpecExport == InitExport /\ [][NextExport]_vars

(***************************************************************************)
(* Claims about install.                                                   *)
(***************************************************************************)
Library(d) == [l \in LibSlots |-> d[l]]

\* The step is a call install(pack).
InstallStep(pack) == result'.op = "install" /\ result'.source_path = pack

Succeeded(res) == res.kind = "returned" /\ success(res)
Failed(res) == res.kind = "returned" /\ ~success(res)

\* manifest.json of the pack passes validate_manifest_file.
ManifestAccepted(pack) ==
    LET v == validate_manifest_file(pack) IN ~v.raised /\ v.errors = <<>>

\* checksums.json is a JSON object that lists a file that is missing or
\* whose digest differs from the listed one.
HasBadChecksumEntry(pack) ==
    /\ ChecksumsPath \in DOMAIN pack.files
    /\ pack.files[ChecksumsPath].kind = "json"
    /\ pack.files[ChecksumsPath].j.t = "sums"
    /\ \E p \in DOMAIN pack.files[ChecksumsPath].j.sums :
          \/ p \notin DOMAIN pack.files
          \/ pack.files[ChecksumsPath].j.sums[p] # [sha |-> pack.files[p]]

\* C1: install of a pack with a valid manifest and a listed file that is
\* missing or altered returns a result with errors and leaves the library as
\* it was, an installed copy of the same domain included.
C1_IntegrityAbort ==
    [][\A pack \in Locations :
          (InstallStep(pack) /\ ManifestAccepted(disk[pack])
             /\ HasBadChecksumEntry(disk[pack]))
          => /\ Failed(result')
             /\ Library(disk') = Library(disk)
             /\ libExists' = libExists]_vars

IntegrityMessages == {"Missing file", "Checksum mismatch"}

C1_Witness ==
    /\ result.op = "install"
    /\ Failed(result)
    /\ \E i \in 1..Len(result.errors) : result.errors[i].msg \in IntegrityMessages
    /\ HasBadChecksumEntry(disk[result.source_path])
    /\ disk[InstalledPath("D1")] = PackA

\* manifest.json exists, parses to a JSON object, has every required field
\* with curriculum_info an object, and format_version "1.0".
ManifestWellFormed(pack) ==
    /\ pack.exists
    /\ ManifestPath \in DOMAIN pack.files
    /\ pack.files[ManifestPath].kind = "json"
    /\ LET j == pack.files[ManifestPath].j
       IN /\ j.t = "obj"
          /\ Range(REQUIRED_FIELDS) \subseteq DOMAIN j.m
          /\ j.m["curriculum_info"].t = "obj"
          /\ Range(REQUIRED_CURRICULUM_INFO) \subseteq DOMAIN j.m["curriculum_info"].m
          /\ j.m["format_version"] = JStr("1.0")

\* C2: whatever manifest.json holds, if it is not a valid manifest then
\* install returns an error result (it does not raise) and leaves the file
\* system as it was.
C2_ManifestAbort ==
    [][\A pack \in Locations :
          (InstallStep(pack) /\ ~ManifestWellFormed(disk[pack]))
          => /\ Failed(result')
             /\ disk' = disk
             /\ libExists' = libExists]_vars

\* checksums.json is a JSON object and every entry matches the file it names.
ChecksumsMatch(pack) ==
    /\ ChecksumsPath \in DOMAIN pack.files
    /\ pack.files[ChecksumsPath].kind = "json"
    /\ pack.files[ChecksumsPath].j.t = "sums"
    /\ \A p \in DOMAIN pack.files[ChecksumsPath].j.sums :
          /\ p \in DOMAIN pack.files
          /\ pack.files[ChecksumsPath].j.sums[p] = [sha |-> pack.files[p]]

DomainOf(pack) == pack.files[ManifestPath].j.m["curriculum_info"].m["domain"].s

\* C3: install of a verified pack of domain d over an existing <target>/d.jcur
\* records the replacement warning and leaves no file of the prior copy; when
\* it succeeds, <target>/d.jcur holds exactly the files of the source.
C3_Replace ==
    [][\A pack \in Locations :
          (InstallStep(pack) /\ ManifestWellFormed(disk[pack])
             /\ ChecksumsMatch(disk[pack]))
          => LET d == DomainOf(disk[pack])
                 ip == InstalledPath(d)
             IN /\ disk[ip].exists => Replacing(d) \in Range(imp_warnings')
                /\ (disk[ip].exists /\ result'.kind = "returned")
                      => Replacing(d) \in Range(result'.warnings)
                /\ \A p \in DOMAIN disk'[ip].files :
                      /\ p \in DOMAIN disk[pack].files
                      /\ disk'[ip].files[p] = disk[pack].files[p]
                /\ Succeeded(result')
                      => /\ result'.domain = d
                         /\ disk'[ip] = Dir(disk[pack].files)]_vars

C3_Witness ==
    /\ result.op = "install"
    /\ Succeeded(result)
    /\ result.source_path = S1
    /\ Replacing("D1") \in Range(result.warnings)
    /\ LessonPath("b") \notin DOMAIN disk[S1].files
    /\ disk[InstalledPath("D1")] = disk[S1]

\* The files of the pack that checksums.json does not list.
Unlisted(pack) ==
    (DOMAIN pack.files) \ (DOMAIN pack.files[ChecksumsPath].j.sums \cup {ChecksumsPath})

\* C4: a pack with a valid manifest, matching checksums and files that
\* checksums.json does not list installs successfully, with no warning about
\* the unlisted files, and they are copied like the others.
C4_UnlistedAccepted ==
    [][\A pack \in Locations :
          (InstallStep(pack) /\ ManifestWellFormed(disk[pack])
             /\ ChecksumsMatch(disk[pack]) /\ Unlisted(disk[pack]) # {})
          => /\ Succeeded(result')
             /\ Range(result'.warnings) \subseteq {Replacing(DomainOf(disk[pack]))}
             /\ disk'[InstalledPath(DomainOf(disk[pack]))] = Dir(disk[pack].files)]_vars

(***************************************************************************)
(* Claims about export and the round trip through the loader.              *)
(***************************************************************************)
Exported == exp_input.given /\ result.op = "export" /\ Succeeded(result)

\* The pack on disk is the one the last export produced, and that export
\* reported success.
ExportedOk == exp_input.given /\ exp_input.ok

InputItems == SumSeq([i \in 1..Len(exp_input.lessons) |-> item_count(exp_input.lessons[i])])

\* C5: after an export of N lessons holding M items in total, the loaded
\* pack's get_lesson_ids() has N entries and get_all_items() yields M items.
C5_RoundTrip ==
    /\ (result.op = "get_lesson_ids" /\ ExportedOk)
           => Len(result.ids) = Len(exp_input.lessons)
    /\ (result.op = "get_all_items" /\ ExportedOk)
           => /\ result.kind = "returned"
              /\ Len(result.items) = InputItems

\* C6: after a successful export, checksums.json has exactly one key for
\* every file of the tree other than the pack's own checksums.json, and each
\* value is the SHA-256 of that file.
C6_ChecksumsCoverTree ==
    Exported =>
        LET tree == disk[OutPack].files
            sums == tree[ChecksumsPath].j.sums
        IN /\ DOMAIN sums = (DOMAIN tree) \ {ChecksumsPath}
           /\ \A p \in DOMAIN sums : sums[p] = sha256_file(tree[p])

Failing(lessons) == SelectSeq(lessons, LAMBDA l : l.fault # "none")
Serialised(lessons) == SelectSeq(lessons, LAMBDA l : l.fault = "none")

\* The lesson of the input that wrote lessons/<id>.json last.
LastWriter(lessons, id) ==
    LET W == {i \in 1..Len(lessons) :
                 lessons[i].lesson_id = id /\ lessons[i].fault # "attr"}
    IN lessons[CHOOSE i \in W : \A j \in W : j <= i]

NumLessons == 11      \* lessons of the pack

IdPool == <<"l01", "l02", "l03", "l04", "l05", "l06", "l07", "l08", "l09", "l10",
            "l11", "l12", "l13">>
CacheIds == SubSeq(IdPool, 1, NumLessons)
HotIds == {"l01", "l02", "zz"}          \* "zz" has no lesson file

BigPack == Loc("packs", "big")
BigPackDir ==
    export(NoDir, BigPack, "big", "Big",
           [i \in 1..NumLessons |-> Lesson(CacheIds[i], "vocab", <<>>)], NoAssets, FALSE).dir

InitCache ==
    /\ disk = [l \in {BigPack} |-> BigPackDir]
    /\ libExists = FALSE
    /\ installed_domains = NoJournal
    /\ held_result = NotKept
    /\ imp_errors = <<>>
    /\ imp_warnings = <<>>
    /\ result = [op |-> "load", kind |-> "returned", path |-> BigPack]
    /\ tampers = 0
    /\ iofaults = 0
    /\ exp_input = NoInput
    /\ exports = 0
    /\ curriculum_pack = load(BigPackDir).pack
    /\ lessons_cache = <<>>
    /\ recency = <<>>
    /\ walk_pos = 0

\* What one call pack.get_lesson(lesson_id) does to the loader.
CallGetLesson(loc, lesson_id) ==
    LET g == get_lesson(disk[loc].files, lessons_cache, lesson_id)
    IN /\ lessons_cache' = g.cache
       /\ recency' = IF g.outcome = "raised" THEN recency ELSE Touch(recency, lesson_id)
       /\ result' = IF g.outcome = "raised"
                    THEN [op |-> "get_lesson", lesson_id |-> lesson_id,
                          outcome |-> g.outcome, exc |-> g.exc]
                    ELSE [op |-> "get_lesson", lesson_id |-> lesson_id,
                          outcome |-> g.outcome, exc |-> g.exc, lesson |-> g.lesson]
       /\ UNCHANGED <<disk, curriculum_pack>>
       /\ UNCHANGED importVars
       /\ UNCHANGED exportVars

\* pack.get_lesson(lesson_id), out of order
GetLesson(loc, lesson_id) ==
    /\ curriculum_pack.loaded
    /\ CallGetLesson(loc, lesson_id)
    /\ UNCHANGED walk_pos

\* it = pack.get_lessons(): a new walk
StartWalk ==
    /\ curriculum_pack.loaded
    /\ walk_pos > 0
    /\ walk_pos' = 0
    /\ result' = [op |-> "get_lessons"]
    /\ UNCHANGED <<disk, curriculum_pack, lessons_cache, recency>>
    /\ UNCHANGED importVars
    /\ UNCHANGED exportVars

\* next(it): the walk's next get_lesson
WalkNext(loc) ==
    /\ curriculum_pack.loaded
    /\ LET ids == get_lesson_ids(curriculum_pack, disk[loc].files)
       IN /\ walk_pos < Len(ids)
          /\ CallGetLesson(loc, ids[walk_pos + 1])
          /\ walk_pos' = walk_pos + 1

NextCache ==
    \/ \E lesson_id \in HotIds : GetLesson(BigPack, lesson_id)
    \/ StartWalk
    \/ WalkNext(BigPack)

SpecCache == InitCache /\ [][NextCache]_vars

(***************************************************************************)
(* Claims about the lesson cache.                                          *)
(***************************************************************************)
\* C8: whatever get_lesson calls were made (hits, misses, lookups of a lesson
\* that is not there), the cache holds at most MAX_CACHED_LESSONS entries.
C8_CacheBounded == Len(lessons_cache) <= MAX_CACHED_LESSONS

\* The cache is full and a further lesson has been loaded.
C8_Witness ==
    /\ Len(lessons_cache) = MAX_CACHED_LESSONS
    /\ Len(recency) > MAX_CACHED_LESSONS
    /\ result.op = "get_lesson"
    /\ result.outcome = "miss"

\* The last n elements of a sequence.
LastN(seq, n) == IF Len(seq) <= n THEN seq ELSE SubSeq(seq, Len(seq) - n + 1, Len(seq))

\* The cached lesson whose last access is the oldest.
LeastRecent(cache, order) ==
    LET cached == SelectSeq(order, LAMBDA x : x \in Range(CachedIds(cache)))
    IN cached[1]

\* C9: the cache evicts by recency of access.  A hit makes the entry the most
\* recently used one and evicts nothing; a miss on a full cache evicts exactly
\* the entry whose last access is the oldest; the cache holds the (up to ten)
\* most recently accessed lessons, so the first of eleven lessons loaded in a
\* row is the one evicted unless it was accessed again in between.
C9_EvictsLeastRecent ==
    [][result'.op = "get_lesson" =>
          LET before == CachedIds(lessons_cache)
              after == CachedIds(lessons_cache')
              id == result'.lesson_id
          IN
             /\ (result'.outcome = "hit") =>
                    (/\ id \in Range(before)
                     /\ Range(after) = Range(before)
                     /\ Len(after) = Len(before)
                     /\ after[Len(after)] = id)
             /\ (result'.outcome = "miss") =>
                    (/\ id \notin Range(before)
                     /\ after[Len(after)] = id
                     /\ Range(after) =
                           IF Len(before) = MAX_CACHED_LESSONS
                           THEN (Range(before) \ {LeastRecent(lessons_cache, recency)})
                                    \cup {id}
                           ELSE Range(before) \cup {id})
             /\ (result'.outcome = "raised") => (after = before)
             /\ after = LastN(recency', MAX_CACHED_LESSONS)
      ]_vars

\* l01 was loaded first and used again before the eleventh load, which then
\* evicted l02; the walk is over and the last call was a hit on l01.
C9_Witness ==
    /\ result.op = "get_lesson"
    /\ result.outcome = "hit"
    /\ result.lesson_id = "l01"
    /\ walk_pos = NumLessons
    /\ Len(lessons_cache) = MAX_CACHED_LESSONS
    /\ "l02" \notin Range(CachedIds(lessons_cache))

(***************************************************************************)
(* The learner's world: a loaded pack of three lessons whose index.json,   *)
(* if it has one, groups them in the stages A and B, and a mastery map.    *)
(* Mastery levels are counted in tenths.                                   *)
(***************************************************************************)
StageNames == {"A", "B", "X"}           \* no stage is called X
Levels == {5, 8, 9}

\* The unlock_condition entry of a stage document: the key is absent, null, or
\* an object naming a stage, with or without a mastery.
ConditionDocs ==
    {[key |-> FALSE], [key |-> TRUE, j |-> JNull]}
        \cup {[key |-> TRUE, j |-> JObj([stage |-> JStr(n)])] : n \in StageNames}
        \cup {[key |-> TRUE, j |-> JObj([stage |-> JStr(n), mastery |-> JNum(m)])] :
                 n \in StageNames, m \in {0, 5}}

StageDoc(name, lessons, c) ==
    IF c.key
    THEN JObj([name |-> JStr(name), lessons |-> JStrList(lessons), unlock_condition |-> c.j])
    ELSE JObj([name |-> JStr(name), lessons |-> JStrList(lessons)])

\* Orders an index may recommend: empty, or with an id twice and an id ("x")
\* that has no lesson file.
OtherOrders == {<<>>, <<"c", "x", "a", "c">>}

IndexDocs ==
    {JObj([stages |-> JList(<<>>)])}
        \cup {JObj([stages |-> JList(<<StageDoc("A", <<"a">>, ca),
                                       StageDoc("B", <<"b", "c">>, cb)>>),
                    recommended_order |-> JStrList(<<"a", "b", "c">>)]) :
                 ca \in ConditionDocs, cb \in ConditionDocs}
        \cup {JObj([stages |-> JList(<<StageDoc("A", <<"a">>, [key |-> FALSE])>>),
                    recommended_order |-> JStrList(order)]) : order \in OtherOrders}

StagedPack == Loc("packs", "staged")
StagedBase ==
    export(NoDir, StagedPack, "staged", "Staged", <<LessonA, LessonB, LessonC>>,
           NoAssets, FALSE).dir.files
\* The pack without its lessons/ directory and without index.json.
StagedBare == Restrict(StagedBase, {ManifestPath, ChecksumsPath})
StagedDirs ==
    {Dir(Remove(StagedBase, IndexPath)), Dir(StagedBare)}
        \cup {Dir(Put(StagedBase, IndexPath, JsonFile(j))) : j \in IndexDocs}

MasteryMaps == UNION {[names -> Levels] : names \in SUBSET StageNames}

InitUnlock ==
    /\ \E dir \in StagedDirs :
           /\ disk = [l \in {StagedPack} |-> dir]
           /\ curriculum_pack = load(dir).pack
    /\ libExists = FALSE
    /\ installed_domains = NoJournal
    /\ held_result = NotKept
    /\ imp_errors = <<>>
    /\ imp_warnings = <<>>
    /\ result = [op |-> "load", kind |-> "returned", path |-> StagedPack]
    /\ tampers = 0
    /\ iofaults = 0
    /\ exp_input = NoInput
    /\ exports = 0
    /\ lessons_cache = <<>>
    /\ recency = <<>>
    /\ walk_pos = 0

NextUnlock ==
    \/ \E mastery \in MasteryMaps : GetUnlockedLessons(StagedPack, mastery)
    \/ GetLessonIds(StagedPack)

SpecUnlock == InitUnlock /\ [][NextUnlock]_vars

(***************************************************************************)
(* Claims about unlocking.                                                 *)
(***************************************************************************)
\* The stage is open under the mastery map: it has no condition, or the level
\* recorded for the stage it names (0 when none is) reaches the one required.
Open(stage, mastery) ==
    \/ ~stage.unlock_condition.present
    \/ \E level \in Levels \cup {0} :
           /\ level = (IF stage.unlock_condition.stage \in DOMAIN mastery
                       THEN mastery[stage.unlock_condition.stage] ELSE 0)
           /\ level >= stage.unlock_condition.mastery

\* The index has A without a condition and B requiring A at 0.8.
IsExampleIndex(index) ==
    /\ Len(index.stages) = 2
    /\ ~index.stages[1].unlock_condition.present
    /\ index.stages[2].unlock_condition = UnlockCondition("A", 8)

\* C10: without an index get_unlocked_lessons returns get_lesson_ids(),
\* whatever the mastery map; with an index it returns, in stage order, the
\* lessons of exactly the stages that are open, each stage decided on its own
\* condition alone.  With A unconditioned and B requiring A at 0.8, {A: 0.9}
\* gives both stages' lessons and {A: 0.5} only A's.
C10_Unlocked ==
    result.op = "get_unlocked_lessons" =>
        LET index == curriculum_pack.index
            mastery == result.mastery
        IN IF ~index.present
           THEN result.ids = get_lesson_ids(curriculum_pack, disk[StagedPack].files)
           ELSE /\ result.ids =
                       Concat([i \in 1..Len(index.v.stages) |->
                                  IF Open(index.v.stages[i], mastery)
                                  THEN index.v.stages[i].lessons ELSE <<>>])
                /\ (IsExampleIndex(index.v) /\ mastery = [n \in {"A"} |-> 9])
                       => result.ids = <<"a", "b", "c">>
                /\ (IsExampleIndex(index.v) /\ mastery = [n \in {"A"} |-> 5])
                       => result.ids = <<"a">>

\* B requires A at 0.8 and A, which requires B, is locked: mastery of A at
\* exactly 0.8 opens B alone.
C10_Witness ==
    /\ result.op = "get_unlocked_lessons"
    /\ curriculum_pack.index.present
    /\ Len(curriculum_pack.index.v.stages) = 2
    /\ curriculum_pack.index.v.stages[1].unlock_condition = UnlockCondition("B", 5)
    /\ curriculum_pack.index.v.stages[2].unlock_condition = UnlockCondition("A", 8)
    /\ result.mastery = [n \in {"A"} |-> 8]
    /\ result.ids = <<"b", "c">>

\* The names of the stages of an index.
NamesOf(stages) == {stages[i].name : i \in 1..Len(stages)}

\* The stage's condition names a stage the index does not have.
Dangling(index, stage) ==
    /\ stage.unlock_condition.present
    /\ stage.unlock_condition.stage \notin NamesOf(index.stages)

\* C11: a stage whose unlock_condition names a stage that is not in the index
\* is locked for good: whatever the mastery map and whatever the threshold of
\* the condition, get_unlocked_lessons returns none of its lessons (and the
\* index loads without an error).
C11_DanglingLocked ==
    (result.op = "get_unlocked_lessons" /\ curriculum_pack.index.present) =>
        LET index == curriculum_pack.index.v
        IN \A i \in 1..Len(index.stages) :
               Dangling(index, index.stages[i]) =>
                   Range(index.stages[i].lessons) \cap Range(result.ids) = {}

(***************************************************************************)
(* Claims about get_lesson_ids.                                            *)
(***************************************************************************)
\* x comes before y in the lexicographic order of the stems.
Precedes(x, y) ==
    \E i, j \in 1..Len(StemOrder) : i < j /\ StemOrder[i] = x /\ StemOrder[j] = y

\* The recommended_order that index.json on disk holds; empty without one.
OrderOnDisk(tree) ==
    IF IndexPath \in DOMAIN tree /\ "recommended_order" \in DOMAIN tree[IndexPath].j.m
    THEN tree[IndexPath].j.m["recommended_order"].l
    ELSE <<>>

\* C12: get_lesson_ids() returns the recommended_order of the index as it
\* stands (duplicates and ids without a lesson file included) when there is an
\* index with a non-empty one; otherwise the stems of lessons/*.json, each
\* once, in ascending order, and the empty list without lessons/.
C12_LessonIds ==
    result.op = "get_lesson_ids" =>
        LET tree == disk[StagedPack].files
            order == OrderOnDisk(tree)
            ids == result.ids
        IN IF order # <<>>
           THEN /\ Len(ids) = Len(order)
                /\ \A i \in 1..Len(ids) : ids[i] = order[i].s
           ELSE /\ Range(ids) = {p.stem : p \in LessonFiles(tree)}
                /\ \A i, j \in 1..Len(ids) : i < j => Precedes(ids[i], ids[j])

\* The order returned names a lesson twice and a lesson that has no file.
C12_Witness ==
    /\ result.op = "get_lesson_ids"
    /\ result.ids = <<"c", "x", "a", "c">>
    /\ LessonPath("x") \notin DOMAIN disk[StagedPack].files

(***************************************************************************)
(* Claims about uninstall.                                                 *)
(***************************************************************************)
\* C13: uninstall(domain) removes <target>/<domain>.jcur and returns true
\* exactly when that directory is there; when it is not, it returns false,
\* raises nothing and leaves the library as it was, however often it is
\* called; an uninstall right after an uninstall of the same domain returns
\* false.
C13_Uninstall ==
    [][\A dom \in Domains :
          (result'.op = "uninstall" /\ result'.domain = dom) =>
              /\ result'.kind = "returned"
              /\ result'.value = disk[InstalledPath(dom)].exists
              /\ ~disk'[InstalledPath(dom)].exists
              /\ \A l \in DOMAIN disk : l # InstalledPath(dom) => disk'[l] = disk[l]
              /\ libExists' = libExists
              /\ (result.op = "uninstall" /\ result.domain = dom) => (result'.value = FALSE)
      ]_vars

\* One installed pack has just been removed and the other one is still there.
C13_Witness ==
    /\ result.op = "uninstall"
    /\ result.value = TRUE
    /\ ~disk[InstalledPath(result.domain)].exists
    /\ \E dom \in Domains : dom # result.domain /\ disk[InstalledPath(dom)].exists

(***************************************************************************)
(* Claims about list_installed and get_pack_info.                          *)
(***************************************************************************)
\* The directories <target>/*.jcur.
PacksUnder(d, target) == {l \in DOMAIN d : l.root = target /\ d[l].exists}

\* The directory yields a JcurPackInfo: it loads as a pack whose manifest
\* carries what the info is made of.
Loadable(dir) ==
    /\ dir.exists
    /\ ManifestPath \in DOMAIN dir.files
    /\ dir.files[ManifestPath].kind = "json"
    /\ LET m == dir.files[ManifestPath].j
       IN /\ m.t = "obj"
          /\ Range(REQUIRED_FIELDS) \cup {"statistics", "source"} \subseteq DOMAIN m.m
          /\ m.m["format_version"] = JStr("1.0")
          /\ m.m["curriculum_info"].t = "obj"
          /\ Range(REQUIRED_CURRICULUM_INFO) \subseteq DOMAIN m.m["curriculum_info"].m
    /\ IndexPath \in DOMAIN dir.files => dir.files[IndexPath].kind = "json"

CandPack == Loc("packs", "cand")

CandManifests ==
    ManifestContents
        \cup {JsonFile(create_manifest("D1", "Pack A")),
              JsonFile(JNum(1)), JsonFile(JStr("x")),
              JsonFile(JObj(Remove(create_manifest("D1", "x").m, "source"))),
              JsonFile(JObj([create_manifest("D1", "x").m EXCEPT
                                 !["format_version"] = JNum(1)]))}

CandDirs ==
    LET base == PackA.files
        WithIndex(tree) == {tree, Remove(tree, IndexPath), Put(tree, IndexPath, Text(1))}
    IN {NoDir}
        \cup {Dir(t) : t \in WithIndex(Remove(base, ManifestPath))}
        \cup {Dir(t) : t \in UNION {WithIndex(Put(base, ManifestPath, c)) : c \in CandManifests}}

InitLoad ==
    /\ \E dir \in CandDirs : disk = [l \in {CandPack} |-> dir]
    /\ libExists = FALSE
    /\ installed_domains = NoJournal
    /\ held_result = NotKept
    /\ imp_errors = <<>>
    /\ imp_warnings = <<>>
    /\ result = [op |-> "init"]
    /\ tampers = 0
    /\ iofaults = 0
    /\ exp_input = NoInput
    /\ exports = 0
    /\ curriculum_pack = NotLoaded
    /\ lessons_cache = <<>>
    /\ recency = <<>>
    /\ walk_pos = 0

\* validate_manifest(m), m being the value json.load gave for manifest.json
Validate(loc) ==
    /\ disk[loc].exists
    /\ ManifestPath \in DOMAIN disk[loc].files
    /\ disk[loc].files[ManifestPath].kind = "json"
    /\ LET manifest == disk[loc].files[ManifestPath].j
           v == validate_manifest(manifest)
       IN result' = IF v.raised
                    THEN [op |-> "validate_manifest", kind |-> "raised",
                          manifest |-> manifest, exc |-> v.exc]
                    ELSE [op |-> "validate_manifest", kind |-> "returned",
                          manifest |-> manifest, errors |-> v.errors]
    /\ UNCHANGED <<disk, curriculum_pack, lessons_cache, recency, walk_pos>>
    /\ UNCHANGED importVars
    /\ UNCHANGED exportVars

\* pack.get_info() on the loaded pack
GetInfo(loc) ==
    /\ curriculum_pack.loaded
    /\ LET o == get_info(curriculum_pack, loc)
       IN result' = IF o.ok
                    THEN [op |-> "get_info", kind |-> "returned", info |-> o.info]
                    ELSE [op |-> "get_info", kind |-> "raised", exc |-> o.exc]
    /\ UNCHANGED <<disk, curriculum_pack, lessons_cache, recency, walk_pos>>
    /\ UNCHANGED importVars
    /\ UNCHANGED exportVars

\* pack.name, pack.domain, ..., pack.version on the loaded pack
GetProperty(prop) ==
    /\ curriculum_pack.loaded
    /\ LET o == manifest_property(curriculum_pack, prop)
       IN result' = IF o.raised
                    THEN [op |-> "property", prop |-> prop, kind |-> "raised",
                          exc |-> o.exc]
                    ELSE [op |-> "property", prop |-> prop, kind |-> "returned",
                          value |-> o.value]
    /\ UNCHANGED <<disk, curriculum_pack, lessons_cache, recency, walk_pos>>
    /\ UNCHANGED importVars
    /\ UNCHANGED exportVars

NextLoad ==
    \/ Load(CandPack)
    \/ Validate(CandPack)
    \/ GetInfo(CandPack)
    \/ \E prop \in MANIFEST_PROPERTIES : GetProperty(prop)

SpecLoad == InitLoad /\ [][NextLoad]_vars

(***************************************************************************)
(* Claims about load and validate_manifest.                                *)
(***************************************************************************)
\* The exception is a ValueError: json.JSONDecodeError and UnicodeDecodeError
\* are subclasses of it.
IsValueError(exc) == exc \in {"ValueError", "JSONDecodeError", "UnicodeDecodeError"}

\* C15: load fails with FileNotFoundError when the path does not exist and
\* with ValueError when manifest.json is absent, is not JSON or is not a valid
\* manifest, and then no pack is returned; without index.json it returns a
\* pack that has no index.
C15_LoadErrors ==
    result.op = "load" =>
        LET dir == disk[result.path]
        IN /\ ~dir.exists =>
                  result.kind = "raised" /\ result.exc = "FileNotFoundError"
           /\ (dir.exists /\ ~ManifestWellFormed(dir)) =>
                  /\ result.kind = "raised"
                  /\ IsValueError(result.exc)
                  /\ ~curriculum_pack.loaded
           /\ (ManifestWellFormed(dir) /\ IndexPath \notin DOMAIN dir.files) =>
                  /\ result.kind = "returned"
                  /\ curriculum_pack.loaded
                  /\ ~curriculum_pack.index.present

\* The required fields the JSON object lacks.
Lacking(obj, fields) == {f \in Range(fields) : f \notin DOMAIN obj.m}

\* C16: validate_manifest returns for every manifest value, never raises; the
\* list it returns holds one error for each required field that is missing,
\* one for each required curriculum_info field that is missing and one when
\* format_version is not the string "1.0", so it is empty exactly for a
\* manifest that has them all.
C16_ValidateTotal ==
    result.op = "validate_manifest" =>
        LET manifest == result.manifest
            shaped == /\ manifest.t = "obj"
                      /\ "curriculum_info" \in DOMAIN manifest.m =>
                             manifest.m["curriculum_info"].t = "obj"
        IN /\ result.kind = "returned"
           /\ shaped =>
                 LET top == Lacking(manifest, REQUIRED_FIELDS)
                     inner == IF "curriculum_info" \in DOMAIN manifest.m
                              THEN Lacking(manifest.m["curriculum_info"],
                                           REQUIRED_CURRICULUM_INFO)
                              ELSE {}
                     version == IF "format_version" \in DOMAIN manifest.m
                                   /\ manifest.m["format_version"] = JStr("1.0")
                                THEN 0 ELSE 1
                 IN /\ Len(result.errors) =
                           Cardinality(top) + Cardinality(inner) + version
                    /\ (result.errors = <<>>) <=>
                           (top = {} /\ inner = {} /\ version = 0
                              /\ "curriculum_info" \in DOMAIN manifest.m)

(***************************************************************************)
(* Claims about the two tiers of problems and the life of a pack tree.     *)
(***************************************************************************)
\* A file lessons/*.json of the pack is not JSON.
HasUnparseableLesson(pack) ==
    \E p \in LessonFiles(pack.files) : pack.files[p].kind # "json"

\* C17: a content-level problem is a warning and does not stop a batch
\* operation: install of a pack that passes manifest and checksum verification
\* and holds a lesson file that cannot be parsed still returns a result whose
\* success is true.
C17_ContentIsWarning ==
    [][\A pack \in Sources :
          (InstallStep(pack) /\ ManifestWellFormed(disk[pack])
             /\ ChecksumsMatch(disk[pack]) /\ HasUnparseableLesson(disk[pack]))
          => Succeeded(result')]_vars

\* C18: the tree export has produced is never changed afterwards, by a later
\* export into the same place or by the loader, and after an export it holds
\* no lesson file that this export did not write.
C18_PackImmutable ==
    [][/\ disk[OutPack].exists => disk'[OutPack] = disk[OutPack]
       /\ (result'.op = "export" /\ Succeeded(result')) =>
              {p.stem : p \in LessonFiles(disk'[OutPack].files)}
                  \subseteq Range(LessonIdsOf(exp_input'.lessons))
      ]_vars

\* The index document the claim describes for the lesson ids.
AllLessonsIndex(ids) ==
    JObj([stages |-> JList(<<JObj([name |-> JStr("All Lessons"),
                                   lessons |-> JList([i \in 1..Len(ids) |-> JStr(ids[i])]),
                                   unlock_condition |-> JNull])>>),
          recommended_order |-> JList([i \in 1..Len(ids) |-> JStr(ids[i])])])

\* C19: the index.json export writes has the one stage "All Lessons" holding
\* every lesson id of the input in input order, without a condition, and the
\* same list as recommended_order; so on an exported pack
\* get_unlocked_lessons(mastery) equals get_lesson_ids() for every mastery.
C19_ExportedIndex ==
    /\ Exported =>
           disk[OutPack].files[IndexPath] =
               JsonFile(AllLessonsIndex([i \in 1..Len(exp_input.lessons) |->
                                            exp_input.lessons[i].lesson_id]))
    /\ (result.op = "get_unlocked_lessons" /\ ExportedOk) =>
           result.ids = get_lesson_ids(curriculum_pack, disk[OutPack].files)

\* The numbers in the statistics of the manifest export wrote.
ManifestStats(tree) == tree[ManifestPath].j.m["statistics"].m

\* C20: in the manifest export writes and in its result, total_lessons is the
\* number of lessons that were written (those skipped after a failed
\* serialisation not counted), total_items the number of items in them, and
\* statistics.categories the items per category of those lessons, summing to
\* total_items.
C20_RealCounts ==
    Exported =>
        LET lessons == Serialised(exp_input.lessons)
            items == SumSeq([i \in 1..Len(lessons) |-> item_count(lessons[i])])
            stats == ManifestStats(disk[OutPack].files)
            cats == stats["categories"].m
            InCategory(c) == SelectSeq(lessons, LAMBDA l : l.category = c)
        IN /\ result.total_lessons = Len(lessons)
           /\ stats["total_lessons"] = JNum(Len(lessons))
           /\ result.total_items = items
           /\ stats["total_items"] = JNum(items)
           /\ DOMAIN cats = {lessons[i].category : i \in 1..Len(lessons)}
           /\ \A c \in DOMAIN cats :
                  cats[c] = JNum(SumSeq([i \in 1..Len(InCategory(c)) |->
                                            item_count(InCategory(c)[i])]))

(***************************************************************************)
(* The author's world: lessons that use every field of the dataclasses are *)
(* exported to out/demo.jcur, the pack is loaded and single lessons are    *)
(* read back.                                                              *)
(***************************************************************************)
RichItem ==
    [CurriculumItem("r1", "vocab") EXCEPT
        !.target_reading = "yomi", !.part_of_speech = "noun", !.pattern = "p",
        !.explanation = "e", !.context = "c", !.formality = "polite",
        !.direction = "to_target", !.audio = "a.mp3", !.image = "i.png",
        !.hints = <<"h1", "h2">>, !.tags = <<"t1">>,
        !.examples = <<[target |-> "et", source |-> "es", reading |-> None],
                       [target |-> "et2", source |-> "es2", reading |-> "er"]>>]

RichLesson ==
    [Lesson("a", "vocab", <<RichItem, Item2>>) EXCEPT
        !.description = "d", !.difficulty = 2, !.prerequisites = <<"c">>,
        !.estimated_minutes = 20, !.tags = <<"basic">>]

\* a lesson whose only non-default field is the direction of one item
DirectedLesson ==
    Lesson("old", "grammar", <<[Item3 EXCEPT !.direction = "to_source"], Item1>>)

RoundTripPool == {RichLesson, DirectedLesson, LessonC, LessonB}
RoundTripLists == UNION {[1..n -> RoundTripPool] : n \in 0..MaxLessons}
RoundTripIds == {l.lesson_id : l \in RoundTripPool} \cup {"x"}

NextRoundTrip ==
    \/ \E lessons \in RoundTripLists : Export(lessons, NoAssets, FALSE)
    \/ Load(OutPack)
    \/ \E lesson_id \in RoundTripIds : GetLesson(OutPack, lesson_id)

SpecRoundTrip == InitExport /\ [][NextRoundTrip]_vars

ITEM_OPTIONAL == ITEM_FIELDS \ ITEM_REQUIRED

\* The loaded item keeps what the spec says it keeps of the item given.
SameItem(got, given) ==
    /\ \A f \in ITEM_REQUIRED : got[f] = given[f]
    /\ \A f \in ITEM_OPTIONAL \ LIST_ITEM_FIELDS : Truthy(given[f]) => got[f] = given[f]
    /\ \A f \in LIST_ITEM_FIELDS : TruthyList(given[f]) => got[f] = given[f]

SameLesson(got, given) ==
    /\ \A f \in LESSON_FIELDS : got[f] = given[f]
    /\ Len(got.items) = Len(given.items)
    /\ \A i \in 1..Len(given.items) : SameItem(got.items[i], given.items[i])

\* C21: for every lesson given to a successful export, get_lesson(lesson_id)
\* on the loaded pack returns a lesson with the same lesson_id, title,
\* description, category, difficulty, prerequisites, estimated_minutes and
\* tags, and the same items in the same order, each keeping id, type, target,
\* source and every non-empty optional field.
C21_LessonRoundTrip ==
    (/\ ExportedOk
     /\ curriculum_pack.loaded
     /\ result.op = "get_lesson") =>
        \A i \in 1..Len(exp_input.lessons) :
            exp_input.lessons[i].lesson_id = result.lesson_id =>
                /\ result.outcome # "raised"
                /\ SameLesson(result.lesson, exp_input.lessons[i])

(***************************************************************************)
(* The trainer's world: a freshly loaded pack of one to NumLessons lessons *)
(* is walked from end to end with list(pack.get_lessons()), again and      *)
(* again, with single lessons asked for in between.                        *)
(***************************************************************************)
PackOf(n) ==
    export(NoDir, BigPack, "big", "Big",
           [i \in 1..n |-> Lesson(CacheIds[i], "vocab", <<>>)], NoAssets, FALSE).dir

InitWalk ==
    /\ \E n \in 1..NumLessons :
          /\ disk = [l \in {BigPack} |-> PackOf(n)]
          /\ curriculum_pack = load(PackOf(n)).pack
    /\ libExists = FALSE
    /\ installed_domains = NoJournal
    /\ held_result = NotKept
    /\ imp_errors = <<>>
    /\ imp_warnings = <<>>
    /\ result = [op |-> "load", kind |-> "returned", path |-> BigPack]
    /\ tampers = 0
    /\ iofaults = 0
    /\ exp_input = NoInput
    /\ exports = 0
    /\ lessons_cache = <<>>
    /\ recency = <<>>
    /\ walk_pos = 0

\* The number of lesson files the walk over ids opens and parses: one for
\* every get_lesson that does not find its lesson in the cache.
RECURSIVE ParsedByWalk(_, _, _)
ParsedByWalk(tree, cache, ids) ==
    IF ids = <<>> THEN 0
    ELSE LET g == get_lesson(tree, cache, Head(ids))
         IN IF g.outcome = "raised" THEN 0
            ELSE (IF g.outcome = "miss" THEN 1 ELSE 0)
                     + ParsedByWalk(tree, g.cache, Tail(ids))

\* list(pack.get_lessons()): one complete walk
ListLessons(loc) ==
    /\ curriculum_pack.loaded
    /\ LET ids == get_lesson_ids(curriculum_pack, disk[loc].files)
           o == get_lessons(curriculum_pack, disk[loc].files, lessons_cache)
       IN /\ lessons_cache' = o.cache
          /\ recency' = TouchAll(recency, SubSeq(ids, 1, Len(o.lessons)))
          /\ result' = [op |-> "list_lessons",
                        kind |-> IF o.ok THEN "returned" ELSE "raised",
                        ids |-> [i \in 1..Len(o.lessons) |-> o.lessons[i].lesson_id],
                        parsed |-> ParsedByWalk(disk[loc].files, lessons_cache, ids)]
    /\ UNCHANGED <<disk, curriculum_pack, walk_pos>>
    /\ UNCHANGED importVars
    /\ UNCHANGED exportVars

NextWalk ==
    \/ ListLessons(BigPack)
    \/ \E lesson_id \in HotIds : GetLesson(BigPack, lesson_id)
    \/ Load(BigPack)

SpecWalk == InitWalk /\ [][NextWalk]_vars

\* The complete walk that a call of list(pack.get_lessons()) in this state
\* makes: the ids it visits and the number of lesson files it parses.
NextWalkOf(loc) ==
    LET ids == get_lesson_ids(curriculum_pack, disk[loc].files)
        o == get_lessons(curriculum_pack, disk[loc].files, lessons_cache)
    IN [ok |-> o.ok,
        ids |-> [i \in 1..Len(o.lessons) |-> o.lessons[i].lesson_id],
        parsed |-> ParsedByWalk(disk[loc].files, lessons_cache, ids)]

\* C22: right after a complete walk of get_lessons() that had to parse every
\* lesson of the pack (a walk over a cold cache), a second complete walk
\* visits the same lesson ids in the same order and parses strictly fewer
\* lesson files than the first, whatever the number (>= 1) of lessons in the
\* pack.
C22_WarmRestart ==
    (/\ result.op = "list_lessons"
     /\ result.kind = "returned"
     /\ result.parsed = Len(result.ids)) =>
        (/\ NextWalkOf(BigPack).ok
         /\ NextWalkOf(BigPack).ids = result.ids
         /\ NextWalkOf(BigPack).parsed < result.parsed)

(***************************************************************************)
(* Claims about what a failed install leaves behind.                       *)
(***************************************************************************)
\* C23: install is all-or-nothing.  Whenever install returns a result with
\* errors (whatever the cause: a rejected manifest, a checksum failure, a
\* failing copy, a pack_path that is the installed copy itself), the library
\* holds exactly the packs it held before the call, a previously installed
\* copy of the same domain included.
C23_AllOrNothing ==
    [][(result'.op = "install" /\ Failed(result')) =>
           Library(disk') = Library(disk)]_vars

(***************************************************************************)
(* The librarian's world: the importer's world, with a caller that keeps a *)
(* journal of the domains it installed with success and has not            *)
(* uninstalled since, and lists the library in between.                    *)
(***************************************************************************)
InitJournal ==
    /\ disk = [l \in Locations |->
                  IF l = S1 THEN PackA ELSE IF l = S2 THEN PackB ELSE NoDir]
    /\ libExists = FALSE
    /\ installed_domains = Journal({})
    /\ held_result = NotKept
    /\ imp_errors = <<>>
    /\ imp_warnings = <<>>
    /\ result = [op |-> "init"]
    /\ tampers = 0
    /\ iofaults = 0
    /\ exp_input = NoInput
    /\ exports = 0
    /\ curriculum_pack = NotLoaded
    /\ lessons_cache = <<>>
    /\ recency = <<>>
    /\ walk_pos = 0

NextJournal ==
    \/ NextImport
    \/ ListInstalled(LIBRARY)

SpecJournal == InitJournal /\ [][NextJournal]_vars

\* The domains of the entries list_installed returned.
ListedDomains(packs) == {packs[i].domain.s : i \in 1..Len(packs)}

\* C24: after any sequence of install and uninstall calls on a library that
\* was empty, every directory <target>/<d>.jcur holds a valid manifest whose
\* curriculum_info.domain is d, and list_installed(target) returns exactly
\* one entry for each domain whose most recent successful install has not
\* been followed by an uninstall, and no other entry.
C24_LibraryConsistent ==
    /\ \A d \in Domains :
           disk[InstalledPath(d)].exists =>
               /\ ManifestAccepted(disk[InstalledPath(d)])
               /\ ManifestWellFormed(disk[InstalledPath(d)])
               /\ DomainOf(disk[InstalledPath(d)]) = d
    /\ (result.op = "list_installed" /\ result.target = LIBRARY) =>
           /\ ListedDomains(result.packs) = installed_domains.domains
           /\ Len(result.packs) = Cardinality(installed_domains.domains)

(***************************************************************************)
(* The publisher's world: what export wrote to out/demo.jcur is installed  *)
(* as it is into the library.                                              *)
(***************************************************************************)
InitPublish ==
    /\ disk = [l \in {OutPack, InstalledPath("demo")} |-> NoDir]
    /\ libExists = FALSE
    /\ installed_domains = NoJournal
    /\ held_result = NotKept
    /\ imp_errors = <<>>
    /\ imp_warnings = <<>>
    /\ result = [op |-> "init"]
    /\ tampers = 0
    /\ iofaults = 0
    /\ exp_input = NoInput
    /\ exports = 0
    /\ curriculum_pack = NotLoaded
    /\ lessons_cache = <<>>
    /\ recency = <<>>
    /\ walk_pos = 0

NextPublish ==
    \/ \E lessons \in LessonLists, mkdirFails \in BOOLEAN :
           Export(lessons, NoAssets, mkdirFails)
    \/ Install(OutPack)

SpecPublish == InitPublish /\ [][NextPublish]_vars

\* C25: install of the pack a successful export produced, left as it is, is
\* accepted: the manifest validates, every checksum entry matches, the
\* result has success = true, and lessons_installed and items_installed are
\* the total_lessons and total_items of the export's result.
C25_ExportInstalls ==
    (/\ ExportedOk
     /\ result.op = "install"
     /\ result.source_path = OutPack) =>
        /\ ManifestAccepted(disk[OutPack])
        /\ ChecksumsMatch(disk[OutPack])
        /\ Succeeded(result)
        /\ result.lessons_installed = exp_input.returned.total_lessons
        /\ result.items_installed = exp_input.returned.total_items

(***************************************************************************)
(* The caller's world: the importer's world, with a caller that keeps the  *)
(* result of its last install while it goes on using the same importer; a  *)
(* candidate pack's manifest may get overwritten.                          *)
(***************************************************************************)
InitHeld ==
    /\ disk = [l \in Locations |->
                  IF l = S1 THEN PackA ELSE IF l = S2 THEN PackB ELSE NoDir]
    /\ libExists = FALSE
    /\ installed_domains = NoJournal
    /\ held_result = NotHeld
    /\ imp_errors = <<>>
    /\ imp_warnings = <<>>
    /\ result = [op |-> "init"]
    /\ tampers = 0
    /\ iofaults = 0
    /\ exp_input = NoInput
    /\ exports = 0
    /\ curriculum_pack = NotLoaded
    /\ lessons_cache = <<>>
    /\ recency = <<>>
    /\ walk_pos = 0

NextHeld ==
    \/ CorruptFile(S1, ManifestPath)
    \/ \E pack \in Locations : Install(pack)
    \/ \E dom \in Domains : Uninstall(dom)
    \/ \E target \in {LIBRARY, "src"} : ListInstalled(target)
    \/ \E path \in Locations : GetPackInfo(path)

SpecHeld == InitHeld /\ [][NextHeld]_vars

\* C26: the errors and warnings of a JcurImportResult that install returned
\* read, after any later call on the same importer (install, uninstall,
\* list_installed, get_pack_info), as they read when install returned.
C26_ResultImmutable ==
    (held_result.on /\ held_result.given) =>
        /\ held_result.errors = held_result.returned.errors
        /\ held_result.warnings = held_result.returned.warnings

(***************************************************************************)
(* Claims about the loaded pack.                                           *)
(***************************************************************************)
\* C27: on a pack that load has returned, get_info() and every property that
\* reads the manifest return a value; none of them raises.
C27_LoadedPackReadable ==
    result.op \in {"get_info", "property"} => result.kind = "returned"

\* C28: a get_lesson(id) that returns a lesson leaves id in the cache as its
\* most recently used entry, so that the next load does not evict it; a
\* get_lesson(id) that fails with FileNotFoundError leaves the cache, its
\* entries and their order, as it was.
C28_ReturnedIsNewest ==
    [][result'.op = "get_lesson" =>
          LET after == CachedIds(lessons_cache')
              id == result'.lesson_id
          IN /\ (result'.outcome # "raised") =>
                    (/\ id \in Range(after)
                     /\ after[Len(after)] = id
                     /\ lessons_cache'[Len(after)].lesson = result'.lesson
                     /\ id \in Range(CachedIds(EvictOldest(lessons_cache'))))
             /\ (result'.outcome = "raised" /\ result'.exc = "FileNotFoundError") =>
                    lessons_cache' = lessons_cache
      ]_vars

\* The cache is full, lessons have been evicted from it, and the last call
\* was a get_lesson for a lesson the pack does not have.
C28_Witness ==
    /\ result.op = "get_lesson"
    /\ result.outcome = "raised"
    /\ result.exc = "FileNotFoundError"
    /\ Len(lessons_cache) = MAX_CACHED_LESSONS
    /\ Len(recency) > MAX_CACHED_LESSONS

(***************************************************************************)
(* Claims about what install and uninstall leave alone.                    *)
(***************************************************************************)
\* The installed packs of the domains other than the one the pack names.
OtherSlots(pack) ==
    IF ManifestWellFormed(pack)
    THEN LibSlots \ {InstalledPath(DomainOf(pack))}
    ELSE LibSlots

\* C29: install and uninstall for domain d leave every other installed pack
\* <target>/<e>.jcur, e # d, as it was, whether the call succeeds or fails,
\* and install leaves its source pack as it was.
C29_OthersUntouched ==
    [][/\ (result'.op = "uninstall") =>
              \A e \in Domains \ {result'.domain} :
                  disk'[InstalledPath(e)] = disk[InstalledPath(e)]
       /\ \A pack \in Locations :
              InstallStep(pack) =>
                  /\ \A l \in OtherSlots(disk[pack]) : disk'[l] = disk[l]
                  /\ disk'[pack] = disk[pack]
      ]_vars

(***************************************************************************)
(* Claims about unlocking as mastery grows.                                *)
(***************************************************************************)
\* The map `more` records for every stage name at least the level that `less`
\* records, a name without an entry counting as level 0.
AtLeast(more, less) ==
    \A n \in StageNames : DictGet(more, n, 0) >= DictGet(less, n, 0)

\* The lessons get_unlocked_lessons returns for a mastery map, as a set.
UnlockedUnder(mastery) ==
    Range(get_unlocked_lessons(curriculum_pack, disk[StagedPack].files, mastery))

\* C30: unlocking is monotone in mastery.  Every lesson that
\* get_unlocked_lessons(m1) returned is also returned by
\* get_unlocked_lessons(m2) for every mastery map m2 that is at least m1 on
\* every stage name.
C30_UnlockMonotone ==
    result.op = "get_unlocked_lessons" =>
        \A m2 \in MasteryMaps :
            AtLeast(m2, result.mastery) => Range(result.ids) \subseteq UnlockedUnder(m2)

\* The index locks a stage under the map given, lessons of another stage
\* were returned, and a map with more mastery unlocks more.
C30_Witness ==
    /\ result.op = "get_unlocked_lessons"
    /\ curriculum_pack.index.present
    /\ result.ids # <<>>
    /\ \E m2 \in MasteryMaps :
           /\ AtLeast(m2, result.mastery)
           /\ UnlockedUnder(m2) # Range(result.ids)

====
